---- MODULE Spec2Model ----
(***************************************************************************)
(* A model of the diorama-test-gpt demo of neech/Vibe-code: the seeded     *)
(* generator (utils/rng.js), the fixed-point helpers (utils/math.js) and   *)
(* the world generator createWorldGen (world/worldgen.js, found in the     *)
(* second half of src/diorama-test-gpt/src/ui/settings.js).                *)
(*                                                                         *)
(* Numbers.  A JavaScript number that holds a 32-bit pattern is a record   *)
(* [hi, lo] of two 16-bit halves (TLC's integers are 32-bit signed, so the *)
(* word itself does not fit).  Every other number is a fixed-point integer *)
(* with FP units to 1.0, rounded towards minus infinity.  Math.sin,        *)
(* Math.cos, Math.exp, Math.pow and the three.js ImprovedNoise are library *)
(* functions outside the repository; they are represented by fixed         *)
(* deterministic functions with the ranges of the real ones.               *)
(***************************************************************************)
EXTENDS Integers, Sequences, FiniteSets, TLC

\* ------------------------------------------------------------------------
\* 32-bit words
\* ------------------------------------------------------------------------

H16 == 65536

W(hi, lo) == [hi |-> hi, lo |-> lo]

\* seed >>> 0: ToUint32 of an integer hi * 2^16 + lo, hi of either sign
ToUint32(s) == W(s.hi % H16, s.lo)

RECURSIVE Xor16(_, _)
Xor16(a, b) ==
  IF a = 0 THEN b ELSE IF b = 0 THEN a
  ELSE ((a + b) % 2) + 2 * Xor16(a \div 2, b \div 2)

RECURSIVE Or16(_, _)
Or16(a, b) ==
  IF a = 0 THEN b ELSE IF b = 0 THEN a
  ELSE (IF a % 2 = 1 \/ b % 2 = 1 THEN 1 ELSE 0) + 2 * Or16(a \div 2, b \div 2)

\* a ^ b and a | b on 32-bit patterns
Xor32(a, b) == W(Xor16(a.hi, b.hi), Xor16(a.lo, b.lo))
Or32(a, b) == W(Or16(a.hi, b.hi), Or16(a.lo, b.lo))

RECURSIVE Pow2(_)
Pow2(k) == IF k = 0 THEN 1 ELSE 2 * Pow2(k - 1)

\* a >>> k for 0 < k < 16
Shr32(a, k) ==
  W(a.hi \div Pow2(k), (a.hi % Pow2(k)) * Pow2(16 - k) + a.lo \div Pow2(k))

\* (a + b) mod 2^32
Add32(a, b) ==
  LET l == a.lo + b.lo
  IN  W((a.hi + b.hi + l \div H16) % H16, l % H16)

\* low 16 bits and carry of a 16 x 16 bit product, by bytes of b
Mul16(a, b) ==
  LET p0 == a * (b % 256)
      p1 == a * (b \div 256)
      s  == p0 + (p1 % 256) * 256
  IN  W((s \div H16 + p1 \div 256) % H16, s % H16)

\* Math.imul(a, b): the low 32 bits of the product
Imul(a, b) ==
  W((Mul16(a.lo, b.lo).hi + Mul16(a.hi, b.lo).lo + Mul16(a.lo, b.hi).lo) % H16,
    Mul16(a.lo, b.lo).lo)

\* ------------------------------------------------------------------------
\* utils/rng.js: mulberry32
\* ------------------------------------------------------------------------

\* 0x6d2b79f5
Golden == W(27947, 31221)

\* t += 0x6d2b79f5 (the closure's t is a double; every use of it goes
\* through ToInt32, so it is kept modulo 2^32)
mulberry32Advance(t) == Add32(t, Golden)

\* the int32 view of a 32-bit pattern: the value of an expression a ^ b
ToInt32(a) == W(IF a.hi >= 32768 THEN a.hi - H16 ELSE a.hi, a.lo)

\* let x = Math.imul(t ^ (t >>> 15), 1 | t)
mulberry32Mix1(t) == Imul(Xor32(t, Shr32(t, 15)), Or32(W(0, 1), t))

\* x ^= x + Math.imul(x ^ (x >>> 7), 61 | x)
mulberry32Mix2(x) == Xor32(x, Add32(x, Imul(Xor32(x, Shr32(x, 7)), Or32(W(0, 61), x))))

\* x ^ (x >>> 14), without the final >>> 0: a signed 32-bit value
mulberry32Mix3(x) == ToInt32(Xor32(x, Shr32(x, 14)))

mulberry32Mix(t) == mulberry32Mix3(mulberry32Mix2(mulberry32Mix1(t)))

\* the word returned by one call, before the division by 4294967296
mulberry32Signed(t) == mulberry32Mix(mulberry32Advance(t))
mulberry32Out(t) == ToUint32(mulberry32Mix(mulberry32Advance(t)))

\* the value returned by one call, x / 4294967296, as a fixed-point fraction
\* (floor of x * FP / 2^32)
FP == 1000

Frac(w) == (w.hi * FP + (w.lo * FP) \div H16) \div H16

\* ------------------------------------------------------------------------
\* utils/math.js and the Math functions, in fixed point
\* ------------------------------------------------------------------------

Min(a, b) == IF a < b THEN a ELSE b
Max(a, b) == IF a > b THEN a ELSE b
Abs(a) == IF a < 0 THEN -a ELSE a

\* a * b and a / b of two fixed-point numbers, without leaving 32 bits
MulFP(a, b) == (a \div FP) * b + ((a % FP) * b) \div FP
DivFP(a, b) ==
  LET n == IF b < 0 THEN -a ELSE a
      d == Abs(b)
  IN  (n \div d) * FP + ((n % d) * FP) \div d

\* x * (n / d): the product with a decimal literal n / d
Q(x, n, d) == (x * n) \div d

clamp(v, a, b) == Max(a, Min(b, v))

lerpNoDelta(a, b, t) == a + MulFP(b, t)
lerp(a, b, t) == a + MulFP(b - a, t)

smoothstep(edge0, edge1, x) ==
  LET t == clamp(DivFP(x - edge0, edge1 - edge0), 0, FP)
  IN  MulFP(MulFP(t, t), 3 * FP - 2 * t)

RECURSIVE ISqrt(_, _, _)
ISqrt(n, lo, hi) ==
  IF lo >= hi THEN lo
  ELSE LET mid == (lo + hi + 1) \div 2
       IN  IF mid * mid <= n THEN ISqrt(n, mid, hi) ELSE ISqrt(n, lo, mid - 1)

\* Math.hypot(a, b); large arguments are scaled down before squaring
hypot(a, b) ==
  LET k == Max(Abs(a), Abs(b)) \div 32000 + 1
  IN  k * ISqrt((Abs(a) \div k) * (Abs(a) \div k) + (Abs(b) \div k) * (Abs(b) \div k), 0, 46340)

\* Math.PI
PI == 3142

\* Math.sin(a): Bhaskara's rational approximation on each half period
sin(a) ==
  LET m == a % (2 * PI)
      h == IF m < PI THEN m ELSE m - PI
      p == h * (PI - h)
      v == Min(FP, (16 * p) \div ((5 * PI * PI - 4 * p) \div FP))
  IN  IF m < PI THEN v ELSE -v

cos(a) == sin(a + PI \div 2)

\* Math.exp(x) for x <= 0: 1 / (1 + u + u^2/2 + u^3/6) with u = -x
exp(x) ==
  LET u == -x
      u2 == MulFP(u, u)
  IN  IF u >= 12 * FP THEN 0
      ELSE (FP * FP) \div (FP + u + u2 \div 2 + MulFP(u2, u) \div 6)

\* Math.exp(-(d * d) / (2 * r * r))
gauss(d, r) == exp(-(MulFP(DivFP(d, r), DivFP(d, r)) \div 2))

\* Math.pow(b, e) for b >= 0 and 1 <= e <= 2: between b and b * b
pow(b, e) == lerp(b, MulFP(b, b), e - FP)

\* noise.noise(x, y, z) of three.js ImprovedNoise: a fixed function of its
\* arguments with values in [-1, 1] (a triangle wave over a lattice sum)
noise(x, y, z) ==
  LET m == (3 * (x % 4000) + 5 * (y % 4000) + 7 * (z % 4000)) % 4000
  IN  IF m < 2000 THEN m - FP ELSE 3 * FP - m

\* ------------------------------------------------------------------------
\* State
\* ------------------------------------------------------------------------

VARIABLES
  rngSeed,          \* per closure returned by mulberry32: the seed it was given
  rngT,             \* per closure: its variable t
  rngOuts,          \* per closure: the values its calls have returned so far
  args,             \* per world generator: the arguments of createWorldGen
  pc,               \* per world generator: the position inside createWorldGen
  randWorld,        \* per world generator: the layout stream it was given
  ecoRng,           \* per world generator: t of the stream ECO creates
  loc,              \* per world generator: the locals of the running function
  draws,            \* per world generator: calls of randWorld and of ECO's rng
  RIVER_PROFILE,
  BIOME,
  TERRAIN_PROFILE,
  ECO,
  heightOut,        \* per world generator: the last height query and its results
  ecoOut,           \* per world generator: the record the last sampleTo wrote
  queries,          \* per world generator: calls made on the returned generator
  appPc,            \* app.js: the position in the module's top-level code
  sim,              \* app.js: the sim object
  seasonState,      \* app.js: seasonState, with seasonPhase
  uSnow,            \* app.js: sharedUniforms.uSnow.value
  randSim,          \* app.js: t of the runtime stream randSim
  terrain,          \* app.js: the terrain mesh (the vertices the pond pass reads)
  pondGroup,        \* app.js: ponds, pondLevelTimer, pondSnowApplied
  frames,           \* app.js: tick() calls that ran an update
  events,           \* app.js: UI events handled
  levelWrites,      \* app.js: executions of pond.level = level, per pond
  session,          \* sessionStorage: the item under WORLD_SEED_KEY
  resolved,         \* rng.js: the resolveWorldSeed calls made, in order
  local,            \* localStorage: the item under SETTINGS_KEY
  loaded,           \* ui/settings.js: what the last loadSettings call returned
  saved,            \* ui/settings.js: the last saveSettings call
  dom,              \* ui/settings.js: the values of the DOM controls
  firstPerson,      \* controls/firstPerson.js: state, keyDown, the camera, the pointer lock
  clouds,           \* app.js: clouds.userData (cloudDefs, materials) and the cloud group
  frameCapAccum,    \* app.js: the accumulator of the frame limiter
  fps,              \* app.js: fpsFrames, fpsAccum, fpsUiTimer
  starField         \* app.js: the shooting stars of the star field

rngVars == <<rngSeed, rngT, rngOuts>>
genVars == <<args, pc, randWorld, ecoRng, loc, draws, RIVER_PROFILE, BIOME,
             TERRAIN_PROFILE, ECO, heightOut, ecoOut, queries>>
appVars == <<appPc, sim, seasonState, uSnow, randSim, terrain, pondGroup, frames,
            events, levelWrites>>
ctlVars == <<firstPerson, clouds, frameCapAccum, fps, starField>>
pageVars == <<session, resolved, local, loaded, saved, dom, firstPerson, clouds,
              frameCapAccum, fps, starField>>
vars == <<rngSeed, rngT, rngOuts, args, pc, randWorld, ecoRng, loc, draws,
          RIVER_PROFILE, BIOME, TERRAIN_PROFILE, ECO, heightOut, ecoOut, queries,
          appPc, sim, seasonState, uSnow, randSim, terrain, pondGroup, frames,
          events, levelWrites, session, resolved, local, loaded, saved, dom,
          firstPerson, clouds, frameCapAccum, fps, starField>>

\* ------------------------------------------------------------------------
\* mulberry32 closures (utils/rng.js)
\* ------------------------------------------------------------------------

\* calls made on one closure
MaxCalls == 3

Closures == {1, 2}

\* seeds: 12345, 12345 + 2^32, 12345 - 2^32, 777, -1, 2^32 - 1
RngSeeds == {W(0, 12345), W(65536, 12345), W(-65536, 12345), W(0, 777),
             W(-1, 65535), W(65535, 65535)}

\* where a closure keeps its t: `let t` is local to each call of mulberry32
closureShared(c) == 1
closureOf(c) == c

\* mulberry32(seed): a new closure in handle c
mulberry32(c, seed) ==
  /\ rngSeed' = [rngSeed EXCEPT ![c] = seed]
  /\ rngT' = [rngT EXCEPT ![closureOf(c)] = ToUint32(seed)]
  /\ rngOuts' = [rngOuts EXCEPT ![c] = <<>>]
  /\ UNCHANGED <<genVars, appVars, pageVars>>

\* one call of the closure in handle c
rngCall(c) ==
  /\ Len(rngOuts[c]) < MaxCalls
  /\ rngT' = [rngT EXCEPT ![closureOf(c)] = mulberry32Advance(@)]
  /\ rngOuts' = [rngOuts EXCEPT ![c] = Append(@, mulberry32Out(rngT[closureOf(c)]))]
  /\ UNCHANGED <<rngSeed, genVars, appVars, pageVars>>

\* ------------------------------------------------------------------------
\* createWorldGen (ui/settings.js): the layout stream
\* ------------------------------------------------------------------------

Gens == {1, 2}

\* the randWorld argument: a mulberry32 closure (app.js), or any other function
\* with values in [0, 1), here one that repeats a list of values
Mulberry(seed) == [kind |-> "mulberry32", t |-> ToUint32(seed), script |-> <<>>, pos |-> 0]
Script(list) == [kind |-> "script", t |-> W(0, 0), script |-> list, pos |-> 1]
NotAFunction == [kind |-> "undefined", t |-> W(0, 0), script |-> <<>>, pos |-> 0]

\* the value the next call returns, and the stream after that call
StreamVal(s) ==
  IF s.kind = "mulberry32" THEN Frac(mulberry32Out(s.t)) ELSE s.script[s.pos]
StreamAdv(s) ==
  IF s.kind = "mulberry32" THEN [s EXCEPT !.t = mulberry32Advance(@)]
  ELSE [s EXCEPT !.pos = (@ % Len(s.script)) + 1]

RECURSIVE Skip(_, _)
Skip(s, k) == IF k = 0 THEN s ELSE Skip(StreamAdv(s), k - 1)

\* the values the next n calls return
Draws(s, n) == [k \in 1..n |-> StreamVal(Skip(s, k - 1))]

\* const randWorld = mulberry32(WORLD_SEED ^ 0x9e3779b9)
randWorldSeed(worldSeed) == Xor32(ToUint32(worldSeed), W(40503, 31161))
appRandWorld(worldSeed) == Mulberry(randWorldSeed(worldSeed))

\* const randSim = mulberry32((WORLD_SEED + 0x6d2b79f5) ^ 0x85ebca6b), and a
\* variant seeded as randWorld is
randSimSeedAsWorld(worldSeed) == Xor32(ToUint32(worldSeed), W(40503, 31161))
randSimSeed(worldSeed) == Xor32(Add32(ToUint32(worldSeed), Golden), W(34283, 51819))
appRandSim(worldSeed) == Mulberry(randSimSeed(worldSeed))

WORLD ==
  [size |-> 680 * FP, half |-> 340 * FP, terrainSeg |-> 260, waterLevel |-> -1250,
   riverWidth |-> 10 * FP, riverBankWidth |-> 22 * FP, riverDepth |-> 2600]

\* const seed = worldSeed * 0.000123 + 12.345
noiseSeed(worldSeed) ==
  worldSeed.hi * 8060 + Q(worldSeed.hi, 928, 1000) + Q(worldSeed.lo, 123, 1000) + 12345

makeRiverProfile(d, seed) ==
  [amp1 |-> lerp(14 * FP, 28 * FP, d[1]),
   amp2 |-> MulFP(lerp(14 * FP, 28 * FP, d[1]), lerp(280, 700, d[2])),
   freq |-> lerp(22, 48, d[3]),
   wobbleFreq |-> lerp(12, 28, d[4]),
   wobbleAmp |-> lerp(1500, 7000, d[5]),
   phase |-> MulFP(seed, lerp(110, 240, d[6])) + MulFP(d[7], PI) * 2]

\* riverCenterX(z), and a variant whose second harmonic has the amplitude of
\* the first
riverCenterXOneAmp(R, seed, z) ==
  MulFP(R.amp1, sin(MulFP(z, R.freq) + R.phase))
  + MulFP(R.amp1, sin(Q(MulFP(z, R.freq), 217, 100) + 1100 + Q(R.phase, 7, 10)))
  + MulFP(noise(0, MulFP(z, R.wobbleFreq), seed + 200 * FP), R.wobbleAmp)
riverCenterX(R, seed, z) ==
  MulFP(R.amp1, sin(MulFP(z, R.freq) + R.phase))
  + MulFP(R.amp2, sin(Q(MulFP(z, R.freq), 217, 100) + 1100 + Q(R.phase, 7, 10)))
  + MulFP(noise(0, MulFP(z, R.wobbleFreq), seed + 200 * FP), R.wobbleAmp)

\* THREE.Vector2: divideScalar(s), and normalize() = divideScalar(length() || 1)
divideScalar(v, s) == [x |-> DivFP(v.x, s), y |-> DivFP(v.y, s)]
normalize(v) == divideScalar(v, IF hypot(v.x, v.y) = 0 THEN FP ELSE hypot(v.x, v.y))

Unset == [kind |-> "unset"]

\* a step of generator g that calls randWorld n times
Drew(g, n) ==
  /\ randWorld' = [randWorld EXCEPT ![g] = Skip(@, n)]
  /\ draws' = [draws EXCEPT ![g] = @ + n]

\* generator g is inside its createWorldGen call
Running(g) == pc[g] \notin {"start", "idle", "done", "threw"}

\* lines 195-231: the argument checks, then makeRiverProfile; a call starts
\* when no other call is running (JavaScript runs one call to its return
\* before the next)
createWorldGen(g) ==
  /\ pc[g] = "start"
  /\ \A k \in Gens \ {g} : ~Running(k)
  /\ IF ~args[g].seedFinite \/ randWorld[g].kind = "undefined"
     THEN /\ pc' = [pc EXCEPT ![g] = "threw"]
          /\ UNCHANGED <<RIVER_PROFILE, randWorld, draws>>
     ELSE /\ RIVER_PROFILE' = [RIVER_PROFILE EXCEPT ![g] =
                 makeRiverProfile(Draws(randWorld[g], 7), noiseSeed(args[g].worldSeed))]
          /\ Drew(g, 7)
          /\ pc' = [pc EXCEPT ![g] = "biome"]
  /\ UNCHANGED <<pageVars, appVars, rngVars, args, ecoRng, loc, BIOME, TERRAIN_PROFILE, ECO, heightOut, ecoOut, queries>>

\* const biomeModeSafe = typeof biomeMode === "string" ? biomeMode : "mainland"
biomeModeAnyString(a) == IF a.modeType = "string" THEN "miniIslands" ELSE "mainland"

biomeModeSafe(a) == IF a.modeType = "string" THEN a.biomeMode ELSE "mainland"

\* const coastDir = new THREE.Vector2(Math.cos(coastAngle), Math.sin(coastAngle))
\*   .normalize()
coastDirOf(coastAngle) == normalize([x |-> cos(coastAngle), y |-> sin(coastAngle)])

\* makeBiomeProfile up to its placement loop (lines 242-248, 286-295)
makeBiomeProfile(g) ==
  /\ pc[g] = "biome"
  /\ \E d \in {Draws(randWorld[g], 6)} :
       IF biomeModeSafe(args[g]) = "miniIslands"
       THEN /\ loc' = [loc EXCEPT ![g] =
                 [seaLevel |-> WORLD.waterLevel + lerp(600, 1150, d[1]),
                  islands |-> <<>>,
                  countTarget |-> 18 + (d[2] * 15) \div FP,
                  tries |-> 0]]
            /\ Drew(g, 2)
            /\ pc' = [pc EXCEPT ![g] = "islands"]
       ELSE /\ loc' = [loc EXCEPT ![g] =
                 [coastDir |-> coastDirOf(MulFP(d[1], PI) * 2),
                  shorePos |-> MulFP(lerp(120, 280, d[2]), WORLD.half),
                  shoreWidth |-> lerp(18 * FP, 40 * FP, d[3]),
                  coastDrop |-> lerp(10 * FP, 18 * FP, d[4]),
                  coastWaterLevel |-> WORLD.waterLevel - lerp(350, 1050, d[5]),
                  ponds |-> <<>>,
                  pondCount |-> 2 + (d[6] * 3) \div FP,
                  tries |-> 0]]
            /\ Drew(g, 6)
            /\ pc' = [pc EXCEPT ![g] = "ponds"]
  /\ UNCHANGED <<pageVars, appVars, rngVars, args, ecoRng, RIVER_PROFILE, BIOME, TERRAIN_PROFILE, ECO,
                 heightOut, ecoOut, queries>>

\* while (islands.length < countTarget && tries < 5000)
islandLoopCond(L) == Len(L.islands) < L.countTarget /\ L.tries < 5000

\* no island of the list is closer to (x, z) than (a.r + r) * k
farFromAll(list, x, z, r, k) ==
  \A i \in 1..Len(list) : ~(hypot(list[i].x - x, list[i].z - z) < MulFP(list[i].r + r, k))

\* one pass of the island loop body with the candidate (x, z, r): the islands
\* after it and the calls made
islandTry(L, d, x, z, r) ==
  IF hypot(x, z) > Q(WORLD.half, 47, 100) THEN [islands |-> L.islands, used |-> 2]
  ELSE IF ~farFromAll(L.islands, x, z, r, 780) THEN [islands |-> L.islands, used |-> 5]
  ELSE [islands |-> Append(L.islands,
            [x |-> x, z |-> z, r |-> r, height |-> lerp(3800, 14500, d[4]),
             detail |-> lerp(250, FP, d[5]), seed |-> d[6] * 1000]),
        used |-> 6]

\* the island loop and the return of the miniIslands profile (lines 249-284)
islandLoop(g) ==
  /\ pc[g] = "islands"
  /\ \E L \in {loc[g]} :
       IF islandLoopCond(L)
       THEN \E d \in {Draws(randWorld[g], 6)} :
            \E t \in {islandTry(L, d,
                        lerp(-Q(WORLD.half, 46, 100), Q(WORLD.half, 46, 100), d[1]),
                        lerp(-Q(WORLD.half, 46, 100), Q(WORLD.half, 46, 100), d[2]),
                        lerp(10 * FP, 26 * FP, d[3]))} :
              /\ loc' = [loc EXCEPT ![g] = [L EXCEPT !.islands = t.islands, !.tries = @ + 1]]
              /\ Drew(g, t.used)
              /\ UNCHANGED <<pc, BIOME>>
       ELSE /\ BIOME' = [BIOME EXCEPT ![g] =
                 [kind |-> "miniIslands", seaLevel |-> L.seaLevel, islands |-> L.islands,
                  coastDir |-> [x |-> FP, y |-> 0], shorePos |-> 0, shoreWidth |-> FP,
                  coastDrop |-> 0, coastWaterLevel |-> L.seaLevel, ponds |-> <<>>,
                  springIndex |-> -1, fall |-> <<>>]]
            /\ loc' = [loc EXCEPT ![g] = <<>>]
            /\ pc' = [pc EXCEPT ![g] = "terrain"]
            /\ UNCHANGED <<randWorld, draws>>
  /\ UNCHANGED <<pageVars, appVars, rngVars, args, ecoRng, RIVER_PROFILE, TERRAIN_PROFILE, ECO, heightOut, ecoOut, queries>>

\* while (ponds.length < pondCount && tries < 650)
pondLoopNoCap(L) == Len(L.ponds) < L.pondCount
pondLoopCond(L) == Len(L.ponds) < L.pondCount /\ L.tries < 650

\* x * coastDir.x + z * coastDir.y
coastCoordOf(B, x, z) == MulFP(x, B.coastDir.x) + MulFP(z, B.coastDir.y)

\* the loop body without the coast test
pondTryAnyCoast(L, d, x, z, r, cx) ==
  IF Abs(x - cx) < Q(WORLD.riverBankWidth, 9, 10) THEN [ponds |-> L.ponds, used |-> 2]
  ELSE IF ~farFromAll(L.ponds, x, z, r, 1250) THEN [ponds |-> L.ponds, used |-> 5]
  ELSE [ponds |-> Append(L.ponds,
            [x |-> x, z |-> z, r |-> r, depth |-> lerp(1100, 3200, d[4]),
             fill |-> lerp(350, 1050, d[5]), level |-> 0]),
        used |-> 5]

\* one pass of the pond loop body with the candidate (x, z, r) and the river
\* centre cx at z
pondTry(L, d, x, z, r, cx) ==
  IF Abs(x - cx) < Q(WORLD.riverBankWidth, 9, 10) THEN [ponds |-> L.ponds, used |-> 2]
  ELSE IF coastCoordOf(L, x, z) > L.shorePos + Q(L.shoreWidth, 55, 100)
       THEN [ponds |-> L.ponds, used |-> 2]
  ELSE IF ~farFromAll(L.ponds, x, z, r, 1250) THEN [ponds |-> L.ponds, used |-> 5]
  ELSE [ponds |-> Append(L.ponds,
            [x |-> x, z |-> z, r |-> r, depth |-> lerp(1100, 3200, d[4]),
             fill |-> lerp(350, 1050, d[5]), level |-> 0]),
        used |-> 5]

\* the spring pond at (xW, zW) beside the river centre cxW, the waterfall path
\* and the mainland profile (lines 321-340)
springAndFall(L, d, zW, cxW, xW) ==
  [kind |-> "mainland", coastDir |-> L.coastDir, shorePos |-> L.shorePos,
   shoreWidth |-> L.shoreWidth, coastDrop |-> L.coastDrop,
   coastWaterLevel |-> L.coastWaterLevel,
   ponds |-> Append(L.ponds,
               [x |-> xW, z |-> zW, r |-> lerp(6 * FP, 10 * FP, d[4]),
                depth |-> lerp(1400, 2800, d[5]), fill |-> lerp(550, 1250, d[6]),
                level |-> 0]),
   springIndex |-> Len(L.ponds),
   fall |-> <<[x0 |-> xW, z0 |-> zW, x1 |-> cxW, z1 |-> zW,
               width |-> lerp(1800, 3300, d[7]), depth |-> lerp(1200, 2600, d[8]),
               drop |-> lerp(8 * FP, 14 * FP, d[9])]>>]

\* the pond loop, then the spring pond and the return (lines 296-340)
pondLoop(g) ==
  /\ pc[g] = "ponds"
  /\ \E L \in {loc[g]}, d \in {Draws(randWorld[g], 9)}, R \in {RIVER_PROFILE[g]},
        seed \in {noiseSeed(args[g].worldSeed)} :
       IF pondLoopCond(L)
       THEN \E z \in {lerp(-Q(WORLD.half, 42, 100), Q(WORLD.half, 42, 100), d[2])} :
            \E t \in {pondTry(L, d,
                        lerp(-Q(WORLD.half, 42, 100), Q(WORLD.half, 42, 100), d[1]),
                        z, lerp(6500, 14500, d[3]), riverCenterX(R, seed, z))} :
              /\ loc' = [loc EXCEPT ![g] = [L EXCEPT !.ponds = t.ponds, !.tries = @ + 1]]
              /\ Drew(g, t.used)
              /\ UNCHANGED <<pc, BIOME>>
       ELSE \E zW \in {lerp(-Q(WORLD.half, 2, 10), Q(WORLD.half, 2, 10), d[1])} :
            \E cxW \in {riverCenterX(R, seed, zW)} :
              /\ BIOME' = [BIOME EXCEPT ![g] =
                   springAndFall(L, d, zW, cxW,
                     cxW + (IF d[2] < 500 THEN -1 ELSE 1) * lerp(18 * FP, 34 * FP, d[3]))]
              /\ Drew(g, 9)
              /\ loc' = [loc EXCEPT ![g] = <<>>]
              /\ pc' = [pc EXCEPT ![g] = "terrain"]
  /\ UNCHANGED <<pageVars, appVars, rngVars, args, ecoRng, RIVER_PROFILE, TERRAIN_PROFILE, ECO, heightOut, ecoOut, queries>>

\* if (BIOME.islands?.length): reduce() is called on a non-empty list only
hasIslandsAlways(B) == TRUE
hasIslands(B) == Len(B.islands) > 0

\* BIOME.islands.reduce((a, b) => (a.r > b.r ? a : b)): the last island of
\* the largest radius
biggestIsland(islands) ==
  islands[CHOOSE i \in 1..Len(islands) :
            /\ \A j \in 1..Len(islands) : islands[j].r <= islands[i].r
            /\ \A j \in (i + 1)..Len(islands) : islands[j].r < islands[i].r]

\* peak: { x: biggest.x, z: biggest.z, r: biggest.r * 1.25 }
islandPeak(big) == [x |-> big.x, z |-> big.z, r |-> Q(big.r, 125, 100)]

islandsTerrainProfile(peak) ==
  [style |-> "islands", warpScale |-> 7500, warpAmp |-> 16 * FP, baseAmp |-> 0,
   ridgeAmp |-> 0, microAmp |-> 0, features |-> <<>>, ridges |-> <<>>,
   terraceStep |-> 2 * FP, terraceStrength |-> 0, peak |-> peak]

\* const style = r < 0.26 ? "alpine" : r < 0.54 ? "plateau" : r < 0.78 ? ...
styleOf(r) ==
  IF r < 260 THEN "alpine" ELSE IF r < 540 THEN "plateau"
  ELSE IF r < 780 THEN "canyon" ELSE "rolling"

\* the mainland amplitudes of makeTerrainProfile (lines 361-381); warpScale is
\* kept in millionths
mainlandAmps(style, d) ==
  [style |-> style,
   warpScale |-> lerp(4800, 9200, d[2]),
   warpAmp |-> Q(lerp(10 * FP, 26 * FP, d[3]),
                 IF style = "alpine" THEN 115 ELSE IF style = "canyon" THEN 105 ELSE 95, 100),
   baseAmp |-> IF style = "canyon" THEN lerp(5000, 7500, d[4])
               ELSE IF style = "alpine" THEN lerp(7000, 10500, d[4])
               ELSE lerp(5500, 9000, d[4]),
   ridgeAmp |-> IF style = "alpine" THEN lerp(3600, 6400, d[5])
                ELSE IF style = "plateau" THEN lerp(2200, 4400, d[5])
                ELSE lerp(2600, 5200, d[5]),
   microAmp |-> lerp(120, 420, d[6]),
   macroCount |-> lerp(3 * FP, 8 * FP, d[7]) \div FP,
   features |-> <<>>, i |-> 0]

\* makeTerrainProfile up to its loops (lines 345-382)
makeTerrainProfile(g) ==
  /\ pc[g] = "terrain"
  /\ \E B \in {BIOME[g]} :
       IF B.kind = "miniIslands"
       THEN IF hasIslands(B)
            THEN IF Len(B.islands) = 0
                 THEN \* reduce of an empty array with no initial value: TypeError
                      /\ pc' = [pc EXCEPT ![g] = "threw"]
                      /\ UNCHANGED <<TERRAIN_PROFILE, loc, randWorld, draws>>
                 ELSE /\ TERRAIN_PROFILE' = [TERRAIN_PROFILE EXCEPT ![g] =
                           islandsTerrainProfile(islandPeak(biggestIsland(B.islands)))]
                      /\ pc' = [pc EXCEPT ![g] = "eco"]
                      /\ UNCHANGED <<loc, randWorld, draws>>
            ELSE /\ TERRAIN_PROFILE' = [TERRAIN_PROFILE EXCEPT ![g] =
                      islandsTerrainProfile([x |-> 0, z |-> 0, r |-> 40 * FP])]
                 /\ pc' = [pc EXCEPT ![g] = "eco"]
                 /\ UNCHANGED <<loc, randWorld, draws>>
       ELSE \E d \in {Draws(randWorld[g], 7)} :
              /\ loc' = [loc EXCEPT ![g] = mainlandAmps(styleOf(d[1]), d)]
              /\ Drew(g, 7)
              /\ pc' = [pc EXCEPT ![g] = "features"]
              /\ UNCHANGED TERRAIN_PROFILE
  /\ UNCHANGED <<pageVars, appVars, rngVars, args, ecoRng, RIVER_PROFILE, BIOME, ECO, heightOut, ecoOut, queries>>

\* one pass of the macro landform loop (lines 383-391): the feature and the
\* calls made
featureTry(style, d, amp) ==
  IF style = "canyon"
  THEN IF d[5] < 450 THEN [amp |-> MulFP(amp, -lerp(600, 1100, d[6])), used |-> 6]
       ELSE [amp |-> amp, used |-> 5]
  ELSE IF style = "plateau"
  THEN [amp |-> IF d[5] < 250 THEN Q(amp, 45, 100) ELSE amp, used |-> 5]
  ELSE [amp |-> amp, used |-> 4]

featureLoop(g) ==
  /\ pc[g] = "features"
  /\ \E L \in {loc[g]} :
       IF L.i < L.macroCount
       THEN \E d \in {Draws(randWorld[g], 6)} :
            \E t \in {featureTry(L.style, d, lerp(5 * FP, 18 * FP, d[4]))} :
              /\ loc' = [loc EXCEPT ![g] =
                   [L EXCEPT !.i = @ + 1,
                      !.features = Append(@,
                        [x |-> lerp(-Q(WORLD.half, 65, 100), Q(WORLD.half, 65, 100), d[1]),
                         z |-> lerp(-Q(WORLD.half, 65, 100), Q(WORLD.half, 65, 100), d[2]),
                         r |-> lerp(18 * FP, 62 * FP, d[3]), amp |-> t.amp])]]
              /\ Drew(g, t.used)
              /\ UNCHANGED pc
       ELSE /\ loc' = [loc EXCEPT ![g] =
                 [style |-> L.style, warpScale |-> L.warpScale, warpAmp |-> L.warpAmp,
                  baseAmp |-> L.baseAmp, ridgeAmp |-> L.ridgeAmp, microAmp |-> L.microAmp,
                  features |-> L.features, i |-> 0,
                  peakX |-> 0, peakZ |-> 0, peakOk |-> FALSE]]
            /\ pc' = [pc EXCEPT ![g] = "peak"]
            /\ UNCHANGED <<randWorld, draws>>
  /\ UNCHANGED <<pageVars, appVars, rngVars, args, ecoRng, RIVER_PROFILE, BIOME, TERRAIN_PROFILE, ECO,
                 heightOut, ecoOut, queries>>

\* for (let i = 0; i < 80; i++) { ...; peakOk = true; break; }
peakLoopCond(L) == L.i < 80 /\ ~L.peakOk

\* features.push({ x: peakX, z: peakZ, r: peakR, amp: peakAmp }) and what
\* follows the hero hill in the profile under construction
withHero(L, peakX, peakZ, peakR, peakAmp, ridgeCount) ==
  [style |-> L.style, warpScale |-> L.warpScale, warpAmp |-> L.warpAmp,
   baseAmp |-> L.baseAmp, ridgeAmp |-> L.ridgeAmp, microAmp |-> L.microAmp,
   features |-> Append(L.features, [x |-> peakX, z |-> peakZ, r |-> peakR, amp |-> peakAmp]),
   peak |-> [x |-> peakX, z |-> peakZ, r |-> peakR],
   ridgeCount |-> ridgeCount, ridges |-> <<>>, i |-> 0]

\* the hero hill search, its fallback, the hero feature and ridgeCount
\* (lines 393-420)
peakLoop(g) ==
  /\ pc[g] = "peak"
  /\ \E L \in {loc[g]}, d \in {Draws(randWorld[g], 5)}, B \in {BIOME[g]} :
       IF peakLoopCond(L)
       THEN \E x \in {lerp(-Q(WORLD.half, 55, 100), Q(WORLD.half, 55, 100), d[1])},
               z \in {lerp(-Q(WORLD.half, 55, 100), Q(WORLD.half, 55, 100), d[2])} :
              /\ loc' = [loc EXCEPT ![g] =
                   IF coastCoordOf(B, x, z) > B.shorePos - Q(B.shoreWidth, 35, 100)
                   THEN [L EXCEPT !.i = @ + 1]
                   ELSE [L EXCEPT !.peakX = x, !.peakZ = z, !.peakOk = TRUE]]
              /\ Drew(g, 2)
              /\ UNCHANGED pc
       ELSE \E fb \in {IF L.peakOk THEN 0 ELSE 2} :
              /\ loc' = [loc EXCEPT ![g] =
                   withHero(L,
                     IF L.peakOk THEN L.peakX
                     ELSE lerp(-Q(WORLD.half, 45, 100), Q(WORLD.half, 45, 100), d[1]),
                     IF L.peakOk THEN L.peakZ
                     ELSE lerp(-Q(WORLD.half, 45, 100), Q(WORLD.half, 45, 100), d[2]),
                     lerp(34 * FP, 56 * FP, d[fb + 1]),
                     Q(lerp(18 * FP, 32 * FP, d[fb + 2]),
                       IF L.style = "alpine" THEN 125 ELSE 100, 100),
                     lerp(FP, 3 * FP, d[fb + 3]) \div FP)]
              /\ Drew(g, fb + 3)
              /\ pc' = [pc EXCEPT ![g] = "ridges"]
  /\ UNCHANGED <<pageVars, appVars, rngVars, args, ecoRng, RIVER_PROFILE, BIOME, TERRAIN_PROFILE, ECO,
                 heightOut, ecoOut, queries>>

\* ridges.push({ px, pz, dx: Math.cos(a), dz: Math.sin(a), width, amp })
ridgeOf(style, d, a) ==
  [px |-> lerp(-Q(WORLD.half, 55, 100), Q(WORLD.half, 55, 100), d[1]),
   pz |-> lerp(-Q(WORLD.half, 55, 100), Q(WORLD.half, 55, 100), d[2]),
   dx |-> cos(a), dz |-> sin(a),
   width |-> lerp(10 * FP, 28 * FP, d[4]),
   amp |-> MulFP(IF style = "alpine" THEN 10 * FP
                 ELSE IF style = "rolling" THEN 7 * FP ELSE 6 * FP,
                 lerp(550, 1050, d[5]))]

\* the ridge loop, the terrace parameters and the return (lines 421-437)
ridgeLoop(g) ==
  /\ pc[g] = "ridges"
  /\ \E L \in {loc[g]}, d \in {Draws(randWorld[g], 5)} :
       IF L.i < L.ridgeCount
       THEN /\ loc' = [loc EXCEPT ![g] =
                 [L EXCEPT !.ridges = Append(@, ridgeOf(L.style, d, MulFP(d[3], PI) * 2)),
                           !.i = @ + 1]]
            /\ Drew(g, 5)
            /\ UNCHANGED <<pc, TERRAIN_PROFILE>>
       ELSE /\ TERRAIN_PROFILE' = [TERRAIN_PROFILE EXCEPT ![g] =
                 [style |-> L.style, warpScale |-> L.warpScale, warpAmp |-> L.warpAmp,
                  baseAmp |-> L.baseAmp, ridgeAmp |-> L.ridgeAmp, microAmp |-> L.microAmp,
                  features |-> L.features, ridges |-> L.ridges,
                  terraceStep |->
                    IF L.style = "plateau" THEN lerp(1200, 2800, d[1])
                    ELSE IF L.style = "canyon" THEN lerp(900, 2200, d[1])
                    ELSE lerp(600, 1900, d[1]),
                  terraceStrength |->
                    IF L.style = "plateau" THEN lerp(150, 550, d[2])
                    ELSE IF L.style = "canyon" THEN lerp(80, 350, d[2])
                    ELSE lerp(50, 280, d[2]),
                  peak |-> L.peak]]
            /\ loc' = [loc EXCEPT ![g] = <<>>]
            /\ Drew(g, 2)
            /\ pc' = [pc EXCEPT ![g] = "eco"]
  /\ UNCHANGED <<pageVars, appVars, rngVars, args, ecoRng, RIVER_PROFILE, BIOME, ECO, heightOut, ecoOut, queries>>

\* ------------------------------------------------------------------------
\* ECO: the volcano and ruins points (lines 441-492)
\* ------------------------------------------------------------------------

\* a step of generator g that calls ECO's rng n times
EcoDrew(g, n) ==
  /\ ecoRng' = [ecoRng EXCEPT ![g] = Skip(@, n)]
  /\ draws' = [draws EXCEPT ![g] = @ + n]

\* const rng = mulberry32(worldSeed ^ 0x6f3a2c91): a closure of its own for
\* every createWorldGen call (hoisted out of createWorldGen, the calls would
\* share the first one); all holds the streams of all generators
ecoRngHoisted(all, worldSeed) ==
  IF \E k \in Gens : all[k].kind = "mulberry32"
  THEN all[CHOOSE k \in Gens : all[k].kind = "mulberry32"]
  ELSE Mulberry(Xor32(ToUint32(worldSeed), W(28474, 11409)))
ecoRngOf(all, worldSeed) == Mulberry(Xor32(ToUint32(worldSeed), W(28474, 11409)))

\* the entry of the ECO initialiser (lines 441-445)
ecoEnter(g) ==
  /\ pc[g] = "eco"
  /\ ecoRng' = [ecoRng EXCEPT ![g] = ecoRngOf(ecoRng, args[g].worldSeed)]
  /\ loc' = [loc EXCEPT ![g] = [i |-> 0, ok |-> FALSE, vx |-> 0, vz |-> 0]]
  /\ pc' = [pc EXCEPT ![g] = "volcano"]
  /\ UNCHANGED <<pageVars, appVars, rngVars, args, randWorld, draws, RIVER_PROFILE, BIOME, TERRAIN_PROFILE,
                 ECO, heightOut, ecoOut, queries>>

\* for (let i = 0; i < 160; i++) { ...; ok = true; break; }
volcanoLoopCond(L) == L.i < 160 /\ ~L.ok

\* the volcano search, its fallback and the volcano radius (lines 446-468)
volcanoLoop(g) ==
  /\ pc[g] = "volcano"
  /\ \E L \in {loc[g]}, d \in {Draws(ecoRng[g], 3)}, B \in {BIOME[g]} :
       IF volcanoLoopCond(L)
       THEN \E x \in {lerp(-Q(WORLD.half, 5, 10), Q(WORLD.half, 5, 10), d[1])},
               z \in {lerp(-Q(WORLD.half, 5, 10), Q(WORLD.half, 5, 10), d[2])} :
              /\ loc' = [loc EXCEPT ![g] =
                   IF /\ B.kind # "miniIslands"
                      /\ \/ coastCoordOf(B, x, z) > B.shorePos - Q(B.shoreWidth, 35, 100)
                         \/ Abs(x - riverCenterX(RIVER_PROFILE[g],
                                                 noiseSeed(args[g].worldSeed), z))
                              < Q(WORLD.riverBankWidth, 9, 10)
                   THEN [L EXCEPT !.i = @ + 1]
                   ELSE [L EXCEPT !.vx = x, !.vz = z, !.ok = TRUE]]
              /\ EcoDrew(g, 2)
              /\ UNCHANGED pc
       ELSE \E fb \in {IF L.ok THEN 0 ELSE 2} :
              /\ loc' = [loc EXCEPT ![g] =
                   [volcano |->
                      [x |-> IF L.ok THEN L.vx
                             ELSE lerp(-Q(WORLD.half, 35, 100), Q(WORLD.half, 35, 100), d[1]),
                       z |-> IF L.ok THEN L.vz
                             ELSE lerp(-Q(WORLD.half, 35, 100), Q(WORLD.half, 35, 100), d[2]),
                       r |-> lerp(44 * FP, 70 * FP, d[fb + 1])],
                    i |-> 0, ok |-> FALSE, rx |-> 0, rz |-> 0]]
              /\ EcoDrew(g, fb + 1)
              /\ pc' = [pc EXCEPT ![g] = "ruins"]
  /\ UNCHANGED <<pageVars, appVars, rngVars, args, randWorld, RIVER_PROFILE, BIOME, TERRAIN_PROFILE, ECO,
                 heightOut, ecoOut, queries>>

\* for (let i = 0; i < 220; i++) { ...; ok = true; break; }
ruinsLoopCond(L) == L.i < 220 /\ ~L.ok

\* the ruins search, its fallback, the ruins radius and the return of ECO
\* (lines 470-492, 589)
ruinsLoop(g) ==
  /\ pc[g] = "ruins"
  /\ \E L \in {loc[g]}, d \in {Draws(ecoRng[g], 3)}, B \in {BIOME[g]} :
       IF ruinsLoopCond(L)
       THEN \E x \in {lerp(-Q(WORLD.half, 55, 100), Q(WORLD.half, 55, 100), d[1])},
               z \in {lerp(-Q(WORLD.half, 55, 100), Q(WORLD.half, 55, 100), d[2])} :
              /\ loc' = [loc EXCEPT ![g] =
                   IF \/ hypot(x, z) > Q(WORLD.half, 46, 100)
                      \/ /\ B.kind # "miniIslands"
                         /\ \/ coastCoordOf(B, x, z) > B.shorePos + Q(B.shoreWidth, 65, 100)
                            \/ Abs(x - riverCenterX(RIVER_PROFILE[g],
                                                    noiseSeed(args[g].worldSeed), z))
                                 < Q(WORLD.riverBankWidth, 85, 100)
                   THEN [L EXCEPT !.i = @ + 1]
                   ELSE [L EXCEPT !.rx = x, !.rz = z, !.ok = TRUE]]
              /\ EcoDrew(g, 2)
              /\ UNCHANGED <<pc, ECO>>
       ELSE \E fb \in {IF L.ok THEN 0 ELSE 2} :
              /\ ECO' = [ECO EXCEPT ![g] =
                   [volcano |-> L.volcano,
                    ruins |->
                      [x |-> IF L.ok THEN L.rx
                             ELSE lerp(-Q(WORLD.half, 4, 10), Q(WORLD.half, 4, 10), d[1]),
                       z |-> IF L.ok THEN L.rz
                             ELSE lerp(-Q(WORLD.half, 4, 10), Q(WORLD.half, 4, 10), d[2]),
                       r |-> lerp(10 * FP, 16 * FP, d[fb + 1])]]]
              /\ loc' = [loc EXCEPT ![g] = <<>>]
              /\ EcoDrew(g, fb + 1)
              /\ pc' = [pc EXCEPT ![g] = "done"]
  /\ UNCHANGED <<pageVars, appVars, rngVars, args, randWorld, RIVER_PROFILE, BIOME, TERRAIN_PROFILE,
                 heightOut, ecoOut, queries>>

\* ------------------------------------------------------------------------
\* terrainHeightRaw and terrainHeight (lines 592-758)
\* ------------------------------------------------------------------------

\* what the closures of one createWorldGen call see
worldOf(g) ==
  [BIOME |-> BIOME[g], TERRAIN_PROFILE |-> TERRAIN_PROFILE[g], ECO |-> ECO[g],
   RIVER_PROFILE |-> RIVER_PROFILE[g], seed |-> noiseSeed(args[g].worldSeed)]

\* Math.floor(h / step) * step
floorTo(h, step) == (h \div step) * step

\* xw = x + wx, zw = z + wz: the domain warp (lines 595-598, 623-626);
\* scale is in millionths
warp(x, z, scale, amp, seed) ==
  [x |-> x + MulFP(noise(MulFP(x, scale) \div FP, MulFP(z, scale) \div FP, seed + 101 * FP),
                   amp),
   z |-> z + MulFP(noise(MulFP(x, scale) \div FP, MulFP(z, scale) \div FP, seed + 202 * FP),
                   amp)]

\* const edge = smoothstep(WORLD.size * 0.42, WORLD.size * 0.5, Math.hypot(x, z));
\* h = lerp(h, -9.0, edge)
edgeFadeWide(h, x, z) ==
  lerp(h, -9000, smoothstep(Q(WORLD.size, 84, 100), WORLD.size, hypot(x, z)))
edgeFade(h, x, z) ==
  lerp(h, -9000, smoothstep(Q(WORLD.size, 42, 100), Q(WORLD.size, 5, 10), hypot(x, z)))

\* the sea floor of the archipelago before the islands (lines 600-601)
seaFloor(seed, x, z, w) ==
  lerp(-7200, -8600, smoothstep(Q(WORLD.half, 42, 100), Q(WORLD.half, 5, 10), hypot(x, z)))
  + Q(noise(Q(w.x, 3, 100), Q(w.z, 3, 100), seed + 901 * FP), 55, 100)
  + Q(noise(Q(w.x, 9, 100), Q(w.z, 9, 100), seed + 902 * FP), 25, 100)

\* the target height of one island at distance d with falloff t (lines 610-613)
islandTarget(isl, sea, seed, w, d, t) ==
  sea - 550
  + MulFP(isl.height,
          MulFP(pow(t, 1550),
                780 + MulFP(Q(noise(Q(w.x + isl.seed, 12, 100), Q(w.z - isl.seed, 12, 100),
                                    seed + 400 * FP) \div 2 + 500, 22, 100),
                            isl.detail)))
  + Q(FP - smoothstep(Q(isl.r, 72, 100), Q(isl.r, 108, 100), d), 45, 100)

\* one pass of `for (const isl of BIOME.islands)` (lines 604-615)
raiseIsland(h, isl, sea, seed, w, d) ==
  IF FP - smoothstep(Q(isl.r, 55, 100), isl.r, d) <= 0 THEN h
  ELSE Max(h, islandTarget(isl, sea, seed, w, d,
                           FP - smoothstep(Q(isl.r, 55, 100), isl.r, d)))

RECURSIVE raiseIslands(_, _, _, _, _)
raiseIslands(h, B, seed, w, i) ==
  IF i > Len(B.islands) THEN h
  ELSE raiseIslands(raiseIsland(h, B.islands[i], B.seaLevel, seed, w,
                                hypot(w.x - B.islands[i].x, w.z - B.islands[i].z)),
                    B, seed, w, i + 1)

\* base * baseAmp + ridges * ridgeAmp + micro (lines 628-636)
baseHeight(T, seed, w) ==
  MulFP(Q(Q(noise(Q(w.x, 18, 1000), Q(w.z, 18, 1000), seed), 125, 100)
          + Q(noise(Q(w.x, 42, 1000), Q(w.z, 42, 1000), seed + 10 * FP), 75, 100)
          + Q(noise(Q(w.x, 88, 1000), Q(w.z, 88, 1000), seed + 20 * FP), 35, 100)
          + Q(noise(Q(w.x, 25, 100), Q(w.z, 25, 100), seed + 60 * FP), 12, 100), 100, 247),
        T.baseAmp)
  + MulFP(pow(Abs(noise(Q(w.x, 11, 1000), Q(w.z, 11, 1000), seed + 40 * FP)), 1850),
          T.ridgeAmp)
  + MulFP(noise(Q(w.x, 33, 100), Q(w.z, 33, 100), seed + 80 * FP), T.microAmp)

\* macro += f.amp * Math.exp(-d2 / (2 * rr)) over the features (lines 639-646)
RECURSIVE macroSum(_, _, _)
macroSum(features, w, i) ==
  IF i > Len(features) THEN 0
  ELSE MulFP(features[i].amp,
             gauss(hypot(w.x - features[i].x, w.z - features[i].z), features[i].r))
       + macroSum(features, w, i + 1)

\* ridgeLine += r.amp * t over the ridges (lines 650-657)
RECURSIVE ridgeSum(_, _, _)
ridgeSum(ridges, w, i) ==
  IF i > Len(ridges) THEN 0
  ELSE MulFP(ridges[i].amp,
             gauss(Abs(MulFP(w.x - ridges[i].px, -ridges[i].dz)
                       + MulFP(w.z - ridges[i].pz, ridges[i].dx)),
                   ridges[i].width))
       + ridgeSum(ridges, w, i + 1)

\* h = lerp(h, Math.floor(h / step) * step, strength) (lines 660-662, 699-701)
terrace(h, step, strength) == lerp(h, floorTo(h, step), strength)

\* the sandy coast for coastT > 0.0001 (lines 667-672)
coastPull(h, B, seed, x, z, coastT) ==
  lerp(h,
       B.coastWaterLevel
       + MulFP(Q(noise(Q(x, 6, 100), Q(z, 6, 100), seed + 901 * FP), 115, 100)
               + Q(noise(Q(x, 12, 100), Q(z, 12, 100), seed + 902 * FP), 55, 100),
               350 + Q(coastT, 65, 100)),
       MulFP(coastT, coastT))
  - Q(MulFP(coastT, B.coastDrop), 22, 100)

coast(h, B, seed, x, z, coastT) ==
  IF coastT > 0 THEN coastPull(h, B, seed, x, z, coastT) ELSE h

\* the crater bowl and rim at distance d of the volcano, bowlT > 0.001, with
\* n = noise * 0.5 + 0.5 (lines 681-701)
crater(h, r, d, bowlT, n) ==
  terrace(h + MulFP(gauss(d - Q(r, 55, 100), Q(r, 12, 100)), 2000 + Q(n, 22, 10))
            - MulFP(MulFP(MulFP(FP - clamp(DivFP(d, Q(r, 95, 100)), 0, FP),
                                FP - clamp(DivFP(d, Q(r, 95, 100)), 0, FP)),
                          4000 + 3 * (FP - n)),
                    bowlT),
          650, Q(bowlT, 22, 100))

volcano(h, V, seed, w, d) ==
  IF FP - smoothstep(Q(V.r, 18, 100), Q(V.r, 95, 100), d) > 1
  THEN crater(h, V.r, d, FP - smoothstep(Q(V.r, 18, 100), Q(V.r, 95, 100), d),
              noise(Q(w.x, 6, 100), Q(w.z, 6, 100), seed + 9701 * FP) \div 2 + 500)
  ELSE h

\* the point of the segment a-b nearest to p, as the clamped parameter t
\* (lines 709-717; the 1e-6 added to abLen2 is below the model's resolution)
fallT(fall, w) ==
  clamp(DivFP(MulFP(w.x - fall.x0, fall.x1 - fall.x0) + MulFP(w.z - fall.z0, fall.z1 - fall.z0),
              MulFP(fall.x1 - fall.x0, fall.x1 - fall.x0)
              + MulFP(fall.z1 - fall.z0, fall.z1 - fall.z0)),
        0, FP)

\* h -= carve; h -= fall.drop * lip * g (lines 720-727)
ravineCarve(h, fall, t, g) ==
  h - MulFP(MulFP(fall.depth, g), 250 + Q(smoothstep(0, FP, t), 75, 100))
    - MulFP(MulFP(fall.drop, MulFP(smoothstep(0, 120, t), FP - smoothstep(120, 220, t))), g)

\* the waterfall ravine at parameter t of the fall segment
ravine(h, fall, w, t) ==
  ravineCarve(h, fall, t,
    gauss(hypot(w.x - (fall.x0 + MulFP(fall.x1 - fall.x0, t)),
                w.z - (fall.z0 + MulFP(fall.z1 - fall.z0, t))),
          fall.width))

\* one pass of `for (const pond of BIOME.ponds)` at distance d (lines 731-741)
pondBasin(h, pond, d) ==
  h - MulFP(pond.depth, gauss(d, pond.r))
    + Q(MulFP(gauss(d - pond.r, Q(pond.r, 22, 100)), pond.depth), 18, 100)

RECURSIVE pondBasins(_, _, _, _)
pondBasins(h, ponds, w, i) ==
  IF i > Len(ponds) THEN h
  ELSE pondBasins(pondBasin(h, ponds[i], hypot(w.x - ponds[i].x, w.z - ponds[i].z)),
                  ponds, w, i + 1)

\* the miniIslands branch with the warped point w (lines 593-621)
islandsHeightRaw(G, x, z, w) ==
  edgeFade(raiseIslands(seaFloor(G.seed, x, z, w), G.BIOME, G.seed, w, 1), x, z)

\* the mainland branch with the warped point w (lines 623-738)
mainlandHeightRaw(G, x, z, w) ==
  edgeFade(
    pondBasins(
      ravine(
        volcano(
          coast(
            terrace(baseHeight(G.TERRAIN_PROFILE, G.seed, w)
                      + macroSum(G.TERRAIN_PROFILE.features, w, 1)
                      + ridgeSum(G.TERRAIN_PROFILE.ridges, w, 1),
                    G.TERRAIN_PROFILE.terraceStep, G.TERRAIN_PROFILE.terraceStrength),
            G.BIOME, G.seed, x, z,
            smoothstep(G.BIOME.shorePos - Q(G.BIOME.shoreWidth, 45, 100),
                       G.BIOME.shorePos + G.BIOME.shoreWidth, coastCoordOf(G.BIOME, x, z))),
          G.ECO.volcano, G.seed, w,
          hypot(w.x - G.ECO.volcano.x, w.z - G.ECO.volcano.z)),
        G.BIOME.fall[1], w, fallT(G.BIOME.fall[1], w)),
      G.BIOME.ponds, w, 1),
    x, z)

terrainHeightRaw(G, x, z) ==
  IF G.BIOME.kind = "miniIslands"
  THEN islandsHeightRaw(G, x, z, warp(x, z, 6500, 18 * FP, G.seed))
  ELSE mainlandHeightRaw(G, x, z,
         warp(x, z, G.TERRAIN_PROFILE.warpScale, G.TERRAIN_PROFILE.warpAmp, G.seed))

\* the river pass at distance d of the centreline, d < riverBankWidth
\* (lines 749-754)
\* the bank pass with the depth added
riverDeepenRaised(h, d) ==
  h + MulFP(MulFP(WORLD.riverDepth, FP - smoothstep(0, WORLD.riverBankWidth, d)),
            FP - smoothstep(0, WORLD.riverBankWidth, d))

riverDeepen(h, d) ==
  h - MulFP(MulFP(WORLD.riverDepth, FP - smoothstep(0, WORLD.riverBankWidth, d)),
            FP - smoothstep(0, WORLD.riverBankWidth, d))

riverBed(h, d) ==
  Min(h, lerp(h, WORLD.waterLevel - 550,
              FP - smoothstep(0, Q(WORLD.riverWidth, 55, 100), d)))

riverCarve(h, d) ==
  IF d < WORLD.riverBankWidth THEN riverBed(riverDeepen(h, d), d) ELSE h

terrainHeight(G, x, z) ==
  IF G.BIOME.kind = "miniIslands" THEN terrainHeightRaw(G, x, z)
  ELSE riverCarve(terrainHeightRaw(G, x, z), Abs(x - riverCenterX(G.RIVER_PROFILE, G.seed, z)))

\* ------------------------------------------------------------------------
\* ECO: the ecology sampler (lines 494-587)
\* ------------------------------------------------------------------------

\* return BIOME?.kind === "miniIslands" ? BIOME.seaLevel : WORLD.waterLevel
getWaterLevel(B) == IF B.kind = "miniIslands" THEN B.seaLevel ELSE WORLD.waterLevel

\* clamp(noise.noise(x * scale, z * scale, seed + off) * 0.5 + 0.5, 0, 1), with
\* scale in ten-thousandths
n01(seed, x, z, scale, off) ==
  clamp(noise(Q(x, scale, 10000), Q(z, scale, 10000), seed + off * FP) \div 2 + 500, 0, FP)

\* best = Math.min(best, d) over the ponds (lines 518-522)
RECURSIVE nearestPond(_, _, _, _, _)
nearestPond(best, ponds, x, z, i) ==
  IF i > Len(ponds) THEN best
  ELSE nearestPond(Min(best, Max(0, hypot(x - ponds[i].x, z - ponds[i].z) - ponds[i].r)),
                   ponds, x, z, i + 1)

distanceToWater(G, x, z) ==
  IF G.BIOME.kind = "miniIslands"
  THEN nearestPond(Q(Max(0, hypot(x, z) - Q(WORLD.half, 46, 100)), 85, 100),
                   G.BIOME.ponds, x, z, 1)
  ELSE nearestPond(Min(Max(0, Abs(x - riverCenterX(G.RIVER_PROFILE, G.seed, z))
                              - Q(WORLD.riverWidth, 55, 100)),
                       Abs(coastCoordOf(G.BIOME, x, z) - G.BIOME.shorePos)),
                   G.BIOME.ponds, x, z, 1)

\* clamp(Math.exp(-(d * d) / (2 * 26 * 26)), 0, 1)
waterProximity01(G, x, z) == clamp(gauss(distanceToWater(G, x, z), 26 * FP), 0, FP)

temperature01(G, x, z, y) ==
  clamp(680 + Q(500 - clamp(DivFP(z + WORLD.half, WORLD.size), 0, FP), 28, 100)
        + (Q(n01(G.seed, x, z, 48, 9101), 24, 100) + Q(n01(G.seed, x, z, 110, 9102), 12, 100)
           - 180)
        - Q(smoothstep(6 * FP, 22 * FP, y), 42, 100),
        0, FP)

moisture01(G, x, z, y) ==
  clamp(Q(Q(n01(G.seed, x, z, 46, 9201), 65, 100) + Q(n01(G.seed, x, z, 140, 9202), 35, 100),
          82, 100)
        + Q(MulFP(waterProximity01(G, x, z),
                  350 + Q(FP - smoothstep(getWaterLevel(G.BIOME) + FP,
                                          getWaterLevel(G.BIOME) + 8 * FP, y), 65, 100)),
            55, 100)
        - Q(pow(Abs(noise(Q(x, 6, 1000), Q(z, 6, 1000), G.seed + 9301 * FP)), 1500), 15, 100),
        0, FP)

geology01(G, x, z) ==
  clamp(lerp(Q(n01(G.seed, x, z, 52, 9401), 7, 10) + Q(n01(G.seed, x, z, 180, 9402), 3, 10),
             FP,
             Q(smoothstep(Q(G.ECO.volcano.r, 115, 100), Q(G.ECO.volcano.r, 25, 100),
                          hypot(x - G.ECO.volcano.x, z - G.ECO.volcano.z)), 55, 100)),
        0, FP)

\* const dryness = clamp((1.0 - m) * 0.75 + (0.5 - wetNear) * 0.15, 0, 1)
drynessOf(m, wetNear) == clamp(Q(FP - m, 75, 100) + Q(500 - wetNear, 15, 100), 0, FP)

\* const alpine = clamp((1.0 - t) * 0.65 + alt * 0.55, 0, 1)
alpineRaw(t, y) == Q(FP - t, 65, 100) + Q(smoothstep(6500, 16 * FP, y), 55, 100)
alpineOf(t, y) ==
  clamp(Q(FP - t, 65, 100) + Q(smoothstep(6500, 16 * FP, y), 55, 100), 0, FP)

\* const riparian = BIOME.kind === "miniIslands" ? 0 : clamp(1.0 - smoothstep(...), 0, 1)
riparianOf(G, x, z) ==
  IF G.BIOME.kind = "miniIslands" THEN 0
  ELSE clamp(FP - smoothstep(Q(WORLD.riverWidth, 115, 100), Q(WORLD.riverBankWidth, 115, 100),
                             Abs(x - riverCenterX(G.RIVER_PROFILE, G.seed, z))), 0, FP)

\* the fields sampleTo writes, from t, m, g, wetNear and the dryness
sampleFields(G, x, z, y, normalY, t, m, g, dry) ==
  [temp |-> t, moist |-> m, geo |-> g, dry |-> dry,
   wetland |->
     clamp(MulFP(MulFP(m, clamp(pow(Max(normalY, 0), 1350), 0, FP)),
                 FP - smoothstep(getWaterLevel(G.BIOME) + 1400,
                                 getWaterLevel(G.BIOME) + 8500, y)), 0, FP),
   alpine |-> alpineOf(t, y),
   volcanic |->
     clamp(MulFP(smoothstep(640, 920, g),
                 350 + Q(smoothstep(Q(G.ECO.volcano.r, 105, 100), Q(G.ECO.volcano.r, 22, 100),
                                    hypot(x - G.ECO.volcano.x, z - G.ECO.volcano.z)),
                         65, 100)), 0, FP),
   clay |->
     clamp(MulFP(MulFP(smoothstep(250, 550, dry), smoothstep(220, 620, FP - g)),
                 550 + Q(FP - clamp(FP - normalY, 0, FP), 45, 100)), 0, FP),
   riparian |-> riparianOf(G, x, z),
   scree |->
     clamp(MulFP(smoothstep(400, 780, clamp(FP - normalY, 0, FP)),
                 smoothstep(400, 950, FP - m)), 0, FP)]

\* ECO.sampleTo(out, x, z, y, normalY): the record written to out
sampleWith(G, x, z, y, normalY, m, wetNear) ==
  sampleFields(G, x, z, y, normalY, temperature01(G, x, z, y), m, geology01(G, x, z),
               drynessOf(m, wetNear))

\* sampleTo(out, x, z, y, normalY): the ten fields it assigns. The variant
\* keeps the last sample and returns it again for the same (x, z).
sampleToCached(G, x, z, y, normalY) ==
  IF ecoOut[1].kind = "eco" /\ ecoOut[1].x = x /\ ecoOut[1].z = z THEN ecoOut[1].out
  ELSE sampleWith(G, x, z, y, normalY, moisture01(G, x, z, y), waterProximity01(G, x, z))
sampleTo(G, x, z, y, normalY) ==
  sampleWith(G, x, z, y, normalY, moisture01(G, x, z, y), waterProximity01(G, x, z))

\* ------------------------------------------------------------------------
\* Queries of a returned generator
\* ------------------------------------------------------------------------

\* calls made on one returned generator
MaxQueries == 2

\* points asked at, in world units: the centre, the middle, the river band at
\* the world edge (half-extent 340) and the edge away from the river
QueryPoints ==
  {<<0, 0>>, <<21, 0>>, <<-100, 150>>, <<150, -100>>, <<-42, 340>>, <<0, 340>>, <<42, 340>>,
   <<340, 0>>, <<-340, 0>>, <<-250, -250>>, <<340, 340>>}

\* heights and surface normals asked with (y, normalY)
QuerySurfaces == {<<-9 * FP, FP>>, <<0, 600>>, <<7 * FP, -FP>>, <<30 * FP, 2 * FP>>}

\* callbacks run between frames of one page (UI handlers, and queries made
\* by code that runs between frames)
MaxEvents == 1

appRest == <<appPc, sim, seasonState, uSnow, randSim, terrain, pondGroup, frames, levelWrites>>

\* a caller outside the top-level code of app.js: the generator used on its
\* own, or a callback of the running app (the top-level code runs from
\* createWorldGen to the first frame without yielding)
Callback ==
  /\ appPc = "idle" \/ (appPc = "running" /\ events < MaxEvents)
  /\ events' = IF appPc = "running" THEN events + 1 ELSE events

\* terrainHeight(x, z) and terrainHeightRaw(x, z) of generator g
terrainHeightQuery(g) ==
  /\ pc[g] = "done"
  /\ queries[g] < MaxQueries
  /\ Callback
  /\ \E p \in QueryPoints :
       heightOut' = [heightOut EXCEPT ![g] =
         [kind |-> "height", x |-> p[1] * FP, z |-> p[2] * FP,
          raw |-> terrainHeightRaw(worldOf(g), p[1] * FP, p[2] * FP),
          h |-> terrainHeight(worldOf(g), p[1] * FP, p[2] * FP)]]
  /\ queries' = [queries EXCEPT ![g] = @ + 1]
  /\ UNCHANGED <<pageVars, appRest, rngVars, args, pc, randWorld, ecoRng, loc, draws, RIVER_PROFILE, BIOME,
                 TERRAIN_PROFILE, ECO, ecoOut>>

\* ECO.sampleTo(out, x, z, y, normalY) of generator g
sampleToQuery(g) ==
  /\ pc[g] = "done"
  /\ queries[g] < MaxQueries
  /\ Callback
  /\ \E p \in QueryPoints, s \in QuerySurfaces :
       ecoOut' = [ecoOut EXCEPT ![g] =
         [kind |-> "eco", x |-> p[1] * FP, z |-> p[2] * FP, y |-> s[1], normalY |-> s[2],
          out |-> sampleTo(worldOf(g), p[1] * FP, p[2] * FP, s[1], s[2])]]
  /\ queries' = [queries EXCEPT ![g] = @ + 1]
  /\ UNCHANGED <<pageVars, appRest, rngVars, args, pc, randWorld, ecoRng, loc, draws, RIVER_PROFILE, BIOME,
                 TERRAIN_PROFILE, ECO, heightOut>>

\* ------------------------------------------------------------------------
\* Specifications
\* ------------------------------------------------------------------------

\* world seeds (the second is 2^32 - 1)
WorldSeeds == {W(0, 12345), W(0, 777), W(65535, 65535)}

\* layout streams that are not mulberry32 closures: constant ones, and one
\* that places a pond at (42, 0) and the spring pond at most 28 from it
Scripts ==
  {<<0>>, <<500>>, <<999>>,
   <<0, 0, 0, 0, 0, 0, 0,  0, 0, 0, 0, 0, 0,  647, 500, 999, 0, 0,  100, 500, 0, 0, 0,
     500, 500, 999, 999, 0, 0,  0, 0, 0>>}

Modes == {[modeType |-> "string", biomeMode |-> "mainland"],
          [modeType |-> "string", biomeMode |-> "miniIslands"],
          [modeType |-> "string", biomeMode |-> "desert"],
          [modeType |-> "undefined", biomeMode |-> ""]}

Arg(ws, fin, m) ==
  [worldSeed |-> ws, seedFinite |-> fin, modeType |-> m.modeType, biomeMode |-> m.biomeMode]

\* the calls createWorldGen({ worldSeed, randWorld, biomeMode }) of the model
Inputs ==
  {[a |-> Arg(ws, TRUE, m), rw |-> appRandWorld(ws)] : ws \in WorldSeeds, m \in Modes}
  \cup {[a |-> Arg(W(0, 12345), TRUE, m), rw |-> Script(sc)] : sc \in Scripts, m \in Modes}
  \cup {[a |-> Arg(W(0, 12345), FALSE, m), rw |-> appRandWorld(W(0, 12345))] : m \in Modes}
  \cup {[a |-> Arg(W(0, 12345), TRUE, m), rw |-> NotAFunction] : m \in Modes}

NoQuery == [kind |-> "none"]

GenInit(in1, pc1, in2, pc2) ==
  /\ args = <<in1.a, in2.a>>
  /\ randWorld = <<in1.rw, in2.rw>>
  /\ pc = <<pc1, pc2>>
  /\ ecoRng = [g \in Gens |-> NotAFunction]
  /\ loc = [g \in Gens |-> <<>>]
  /\ draws = [g \in Gens |-> 0]
  /\ RIVER_PROFILE = [g \in Gens |-> Unset]
  /\ BIOME = [g \in Gens |-> Unset]
  /\ TERRAIN_PROFILE = [g \in Gens |-> Unset]
  /\ ECO = [g \in Gens |-> Unset]
  /\ heightOut = [g \in Gens |-> NoQuery]
  /\ ecoOut = [g \in Gens |-> NoQuery]
  /\ queries = [g \in Gens |-> 0]

\* no createWorldGen call is made
NoGen ==
  [a |-> Arg(W(0, 12345), TRUE, [modeType |-> "undefined", biomeMode |-> ""]),
   rw |-> NotAFunction]

\* const a = mulberry32(s1), b = mulberry32(s2)
RngInit(s1, s2) ==
  /\ rngSeed = <<s1, s2>>
  /\ rngT = <<ToUint32(s1), ToUint32(s2)>>
  /\ rngOuts = [c \in Closures |-> <<>>]

\* null where a string is expected, and where a seed is
Absent == <<"null">>
NoSeed == [hi |-> -1, lo |-> -1]

\* nothing stored, no call made
\* the controller, the cloud pool and the frame limiter not in use
CtlIdle ==
  /\ firstPerson = <<>>
  /\ clouds = <<>>
  /\ frameCapAccum = 0
  /\ fps = <<>>
  /\ starField = <<>>

PageIdle ==
  /\ session = Absent
  /\ resolved = <<>>
  /\ local = Absent
  /\ loaded = Absent
  /\ saved = Absent
  /\ dom = <<>>
  /\ CtlIdle

\* app.js not loaded
AppIdle ==
  /\ appPc = "idle"
  /\ sim = <<>>
  /\ seasonState = <<>>
  /\ uSnow = 0
  /\ randSim = NotAFunction
  /\ terrain = <<>>
  /\ pondGroup = <<>>
  /\ frames = 0
  /\ events = 0
  /\ levelWrites = 0
  /\ PageIdle

\* one call of createWorldGen, then queries of the generator it returned
Init ==
  /\ RngInit(W(0, 0), W(0, 0))
  /\ AppIdle
  /\ \E in \in Inputs : GenInit(in, "start", in, "idle")

\* the steps of one createWorldGen call
Build(g) ==
  \/ createWorldGen(g)
  \/ makeBiomeProfile(g)
  \/ islandLoop(g)
  \/ pondLoop(g)
  \/ makeTerrainProfile(g)
  \/ featureLoop(g)
  \/ peakLoop(g)
  \/ ridgeLoop(g)
  \/ ecoEnter(g)
  \/ volcanoLoop(g)
  \/ ruinsLoop(g)

Next ==
  \/ Build(1)
  \/ terrainHeightQuery(1)
  \/ sampleToQuery(1)

Spec == Init /\ [][Next]_vars

\* two closures of mulberry32, called and re-created in any order
InitRng ==
  /\ \E s1 \in RngSeeds, s2 \in RngSeeds : RngInit(s1, s2)
  /\ AppIdle
  /\ \E in \in {[a |-> Arg(W(0, 12345), TRUE, m), rw |-> NotAFunction] : m \in Modes} :
       GenInit(in, "idle", in, "idle")

NextRng ==
  \E c \in Closures :
    \/ \E seed \in RngSeeds : mulberry32(c, seed)
    \/ rngCall(c)

SpecRng == InitRng /\ [][NextRng]_vars

\* the two streams of app.js (lines 21-22) as closures 1 (randWorld) and 2
\* (randSim), called in any order. WORLD_SEED: 0, 1, 777, 12345, 0x9e3779b9,
\* 0x1bdcb3d2, 0x80000000, 0x92d48a0b, 0xfffffffe, 2^32 - 1
StreamSeeds ==
  {W(0, 0), W(0, 1), W(0, 777), W(0, 12345), W(40503, 31161), W(7132, 46034),
   W(32768, 0), W(37588, 35339), W(65535, 65534), W(65535, 65535)}

InitStreams ==
  /\ \E ws \in StreamSeeds : RngInit(randWorldSeed(ws), randSimSeed(ws))
  /\ AppIdle
  /\ GenInit(NoGen, "idle", NoGen, "idle")

NextStreams == \E c \in Closures : rngCall(c)

SpecStreams == InitStreams /\ [][NextStreams]_vars

\* two createWorldGen calls with the same arguments, each with a layout stream
\* freshly created from the seed, in any order
DetInputs ==
  {[a |-> Arg(ws, TRUE, m), rw |-> appRandWorld(ws)] : ws \in WorldSeeds, m \in Modes}

InitDet ==
  /\ RngInit(W(0, 0), W(0, 0))
  /\ AppIdle
  /\ \E in \in DetInputs : GenInit(in, "start", in, "start")

NextDet == \E g \in Gens : Build(g)

SpecDet == InitDet /\ [][NextDet]_vars

\* ------------------------------------------------------------------------
\* app/app.js: seasons, weather and snow
\* ------------------------------------------------------------------------

\* sim.snowCover and the uSnow uniform are kept in millionths: one update adds
\* or removes dt * rate, a product of two numbers in thousandths
SnowFP == 1000000

\* const SEASON_ORDER = ["spring", "summer", "autumn", "winter"]
SEASON_ORDER == <<"spring", "summer", "autumn", "winter">>

\* SEASON_PROFILES[name].snowSimFactor (lines 5647-5684)
SEASON_PROFILES ==
  [spring |-> [snowSimFactor |-> 0], summer |-> [snowSimFactor |-> 0],
   autumn |-> [snowSimFactor |-> 0], winter |-> [snowSimFactor |-> 1]]

\* const secondsPerYear = 480, in the unit of dt
secondsPerYear == 480 * FP

\* let seasonPhase = ((WORLD_SEED >>> 0) % 1000) / 1000, kept as the time into
\* the year (seasonPhase * secondsPerYear)
seasonPhaseOf(worldSeed) == (((worldSeed.hi % 125) * 536 + worldSeed.lo) % 1000) * 480

\* updateSeason's choice of seasonState.name (lines 5774-5781)
seasonNameOf(seasonMode, phase) ==
  IF seasonMode = "auto" THEN SEASON_ORDER[clamp((phase * 4) \div secondsPerYear, 0, 3) + 1]
  ELSE IF seasonMode \in DOMAIN SEASON_PROFILES THEN seasonMode
  ELSE "summer"

\* seasonPhase = (seasonPhase + dt / secondsPerYear) % 1, in auto mode only
seasonPhaseAfterUnwrapped(seasonMode, phase, dt) ==
  IF seasonMode = "auto" THEN phase + dt ELSE phase
seasonPhaseAfter(seasonMode, phase, dt) ==
  IF seasonMode = "auto" THEN (phase + dt) % secondsPerYear ELSE phase

\* let seasonPhase, let seasonState (lines 87-88) and let lastSeasonName = null
\* (line 5772); colorsApplied counts the calls of applySeasonColors and forced
\* keeps the force argument of the last updateSeason
seasonStart(phase) ==
  [phase |-> phase, name |-> "summer", snowSimFactor |-> 0,
   lastSeasonName |-> "null", colorsApplied |-> 0, forced |-> FALSE]

\* updateSeason(dt, force): the season state after it (lines 5773-5792)
updateSeason(S, seasonMode, dt, force) ==
  [phase |-> seasonPhaseAfter(seasonMode, S.phase, dt),
   name |-> seasonNameOf(seasonMode, seasonPhaseAfter(seasonMode, S.phase, dt)),
   snowSimFactor |->
     SEASON_PROFILES[seasonNameOf(seasonMode,
                                  seasonPhaseAfter(seasonMode, S.phase, dt))].snowSimFactor,
   lastSeasonName |-> seasonNameOf(seasonMode, seasonPhaseAfter(seasonMode, S.phase, dt)),
   colorsApplied |->
     IF force \/ seasonNameOf(seasonMode, seasonPhaseAfter(seasonMode, S.phase, dt))
                   # S.lastSeasonName
     THEN S.colorsApplied + 1 ELSE S.colorsApplied,
   forced |-> force]

\* pickAutoWeather (lines 5796-5826): r is the first randSim() value, r2 the
\* second, drawn only in the branches that call randSim() again
pickAutoWeather(s, r, r2) ==
  IF s = "winter"
  THEN IF r < 300 THEN [w |-> "clear", used |-> 1]
       ELSE IF r < 480 THEN [w |-> "windy", used |-> 1]
       ELSE IF r < 600 THEN [w |-> "fog", used |-> 1]
       ELSE IF r < 850 THEN [w |-> IF r2 < 550 THEN "blizzard" ELSE "snow", used |-> 2]
       ELSE [w |-> "thunderstorm", used |-> 1]
  ELSE IF s = "spring"
  THEN IF r < 300 THEN [w |-> "clear", used |-> 1]
       ELSE IF r < 450 THEN [w |-> "windy", used |-> 1]
       ELSE IF r < 600 THEN [w |-> "fog", used |-> 1]
       ELSE IF r < 900 THEN [w |-> IF r2 < 300 THEN "thunderstorm" ELSE "rain", used |-> 2]
       ELSE [w |-> "snow", used |-> 1]
  ELSE IF s = "autumn"
  THEN IF r < 280 THEN [w |-> "clear", used |-> 1]
       ELSE IF r < 480 THEN [w |-> "windy", used |-> 1]
       ELSE IF r < 660 THEN [w |-> "fog", used |-> 1]
       ELSE IF r < 920 THEN [w |-> IF r2 < 280 THEN "thunderstorm" ELSE "rain", used |-> 2]
       ELSE [w |-> "snow", used |-> 1]
  ELSE IF r < 420 THEN [w |-> "clear", used |-> 1]
       ELSE IF r < 600 THEN [w |-> "windy", used |-> 1]
       ELSE IF r < 720 THEN [w |-> "sandstorm", used |-> 1]
       ELSE IF r < 920 THEN [w |-> IF r2 < 350 THEN "thunderstorm" ELSE "rain", used |-> 2]
       ELSE [w |-> "fog", used |-> 1]

\* the weather names updateWeather tells apart; any other mode string is a
\* weather with none of their effects
Weathers ==
  {"clear", "windy", "rain", "snow", "fog", "thunderstorm", "blizzard", "sandstorm"}

\* const snowing = isSnow || isBlizzard
snowing(w) == w \in {"snow", "blizzard"}

\* sim.autoWeatherTarget = pickAutoWeather(); sim.autoWeatherTimer =
\*   lerp(28, 55, randSim()): p is what pickAutoWeather returned and drew
autoWeatherPicked(M, p, d) ==
  [M EXCEPT !.autoWeatherTarget = p.w,
            !.autoWeatherTimer = lerp(28 * FP, 55 * FP, d[p.used + 1]),
            !.activeWeather = p.w]

\* the weather mode part with the timer tested before it is counted down
activeWeatherAfterLate(M, s, d, dt) ==
  IF M.weatherMode = "auto"
  THEN IF M.autoWeatherTimer <= 0
       THEN autoWeatherPicked(M, pickAutoWeather(s, d[1], d[2]), d)
       ELSE [M EXCEPT !.autoWeatherTimer = @ - dt, !.activeWeather = M.autoWeatherTarget]
  ELSE [M EXCEPT !.activeWeather = M.weatherMode]

\* lines 5956-5966: the weather mode part of updateWeather
activeWeatherAfter(M, s, d, dt) ==
  IF M.weatherMode = "auto"
  THEN IF M.autoWeatherTimer - dt <= 0
       THEN autoWeatherPicked(M, pickAutoWeather(s, d[1], d[2]), d)
       ELSE [M EXCEPT !.autoWeatherTimer = @ - dt, !.activeWeather = M.autoWeatherTarget]
  ELSE [M EXCEPT !.activeWeather = M.weatherMode]

\* the randSim() calls of that part
activeWeatherDraws(M, s, d, dt) ==
  IF M.weatherMode = "auto" /\ M.autoWeatherTimer - dt <= 0
  THEN pickAutoWeather(s, d[1], d[2]).used + 1
  ELSE 0

\* const targetCloud = ... (lines 5979-5993)
targetCloud(w, precip) ==
  IF w = "thunderstorm" THEN lerp(820, 980, precip)
  ELSE IF w = "blizzard" THEN lerp(720, 980, precip)
  ELSE IF w = "snow" THEN lerp(550, 950, precip)
  ELSE IF w = "rain" THEN lerp(500, 920, precip)
  ELSE IF w = "fog" THEN lerp(450, 750, precip)
  ELSE IF w = "sandstorm" THEN lerp(550, 880, precip)
  ELSE IF w = "windy" THEN 550
  ELSE 250

\* sim.cloudiness = lerp(sim.cloudiness, targetCloud, 1 - Math.pow(0.001, dt));
\* Math.pow(0.001, dt) = Math.exp(-6.908 * dt)
cloudinessAfter(M, dt) ==
  [M EXCEPT !.cloudiness =
     lerp(@, targetCloud(M.activeWeather, M.precip), FP - exp(-MulFP(6908, dt)))]

\* accumulation and melting without the clamp
snowCoverAfterUnclamped(M, dt, dayFactor) ==
  [M EXCEPT !.snowCover =
     IF snowing(M.activeWeather)
     THEN @ + dt * lerp(4, 30, M.precip)
     ELSE @ - (dt * lerp(2, 20, dayFactor) * lerp(550, 1150, FP - M.cloudiness)) \div FP]

\* lines 6058-6064: accumulation while it snows, melting otherwise
snowCoverAfter(M, dt, dayFactor) ==
  [M EXCEPT !.snowCover =
     IF snowing(M.activeWeather)
     THEN clamp(@ + dt * lerp(4, 30, M.precip), 0, SnowFP)
     ELSE clamp(@ - (dt * lerp(2, 20, dayFactor) * lerp(550, 1150, FP - M.cloudiness)) \div FP,
                0, SnowFP)]

\* lines 6072-6077: the ground gets wet in rain and dries otherwise; the
\* wetness is in millionths
groundWetnessAfter(M, dt) ==
  [M EXCEPT !.groundWetness =
     IF M.activeWeather \in {"rain", "thunderstorm"}
     THEN clamp(@ + dt * lerp(100, 550, M.precip), 0, SnowFP)
     ELSE clamp(@ - dt * (IF M.activeWeather = "sandstorm" THEN 80
                          ELSE IF M.activeWeather = "fog" THEN 15
                          ELSE IF snowing(M.activeWeather) THEN 10
                          ELSE 30), 0, SnowFP)]

\* updateWeather(dt, t, dayFactor): sim after it (the fields of sim that the
\* snow, the terrain and the ponds depend on); d holds the next values of
\* randSim
updateWeather(M, s, d, dt, dayFactor) ==
  groundWetnessAfter(
    snowCoverAfter(cloudinessAfter(activeWeatherAfter(M, s, d, dt), dt), dt, dayFactor), dt)

\* sharedUniforms.uSnow.value = sim.snowCover * (seasonState?.snowSimFactor ?? 1)
uSnowOf(M, S) == M.snowCover * S.snowSimFactor

\* ------------------------------------------------------------------------
\* app/app.js: the terrain mesh and the pond water levels
\* ------------------------------------------------------------------------

\* the mesh keeps, per vertex, baseY, snowWeight, snowNoise and the current
\* height y. The model keeps the vertices the pond pass reads: for each pond
\* the 17 points that computePondWaterLevels samples, each taken as a vertex
\* of its own (the mesh has a vertex every WORLD.size / WORLD.terrainSeg and
\* sampleTerrainSurfaceHeight interpolates between the four around a point).

\* mesh.userData.grid.step = WORLD.size / WORLD.terrainSeg
gridStep == WORLD.size \div WORLD.terrainSeg

\* pondWet = Math.max(pondWet, 1 - smoothstep(pond.r * 1.2, pond.r * 2.4, dd))
RECURSIVE pondWetOf(_, _, _, _, _)
pondWetOf(best, ponds, x, z, i) ==
  IF i > Len(ponds) THEN best
  ELSE pondWetOf(Max(best, FP - smoothstep(Q(ponds[i].r, 12, 10), Q(ponds[i].r, 24, 10),
                                           hypot(x - ponds[i].x, z - ponds[i].z))),
                 ponds, x, z, i + 1)

\* coastWet = coastT * (1 - smoothstep(coastWaterLevel - 0.2, coastWaterLevel + 2.0, y))
coastWetOf(B, x, z, y) ==
  MulFP(smoothstep(B.shorePos - Q(B.shoreWidth, 45, 100), B.shorePos + B.shoreWidth,
                   coastCoordOf(B, x, z)),
        FP - smoothstep(B.coastWaterLevel - 200, B.coastWaterLevel + 2 * FP, y))

\* createTerrain: wet at a vertex (lines 1039-1058)
terrainWet(G, x, z, y) ==
  IF G.BIOME.kind = "miniIslands"
  THEN clamp(FP - smoothstep(G.BIOME.seaLevel + 150, G.BIOME.seaLevel + 3 * FP, y), 0, FP)
  ELSE clamp(Q(FP - smoothstep(Q(WORLD.riverWidth, 8, 10), WORLD.riverBankWidth,
                               Abs(x - riverCenterX(G.RIVER_PROFILE, G.seed, z))), 8, 10)
             + Q(pondWetOf(0, G.BIOME.ponds, x, z, 1), 9, 10)
             + Q(coastWetOf(G.BIOME, x, z, y), 9, 10), 0, FP)

\* geo.computeVertexNormals(): the y of the unit normal at a vertex, from the
\* heights of its neighbours one grid step away
vertexNormalY(G, x, z) ==
  DivFP(FP, hypot(FP, hypot(
    DivFP(terrainHeight(G, x + gridStep, z) - terrainHeight(G, x - gridStep, z), 2 * gridStep),
    DivFP(terrainHeight(G, x, z + gridStep) - terrainHeight(G, x, z - gridStep), 2 * gridStep))))

\* snowWeight[i] = flat * hMask * snowDry[i] (lines 1216-1221), with
\* uSnowHeightMin = -2.0 and uSnowHeightMax = 6.0
snowWeightOf(G, x, z, y) ==
  MulFP(MulFP(clamp(pow(Max(vertexNormalY(G, x, z), 0), 1350), 0, FP),
              smoothstep(-2 * FP, 6 * FP, y)),
        clamp(FP - terrainWet(G, x, z, y), 0, FP))

\* one vertex of createTerrain at (x, z) with y = terrainHeight(x, z)
terrainVertex(G, x, z, y) ==
  [baseY |-> y, snowWeight |-> snowWeightOf(G, x, z, y),
   snowNoise |-> n01(G.seed, x, z, 700, 333), y |-> y]

\* the points computePondWaterLevels samples for a pond: the centre, four at
\* 0.35 r (lines 1818-1824) and twelve at 1.05 r (lines 1830-1835)
pondSamplePoint(pond, k) ==
  IF k = 1 THEN [x |-> pond.x, z |-> pond.z]
  ELSE IF k <= 5
  THEN [x |-> pond.x + MulFP(cos(((k - 2) * 2 * PI) \div 4), Q(pond.r, 35, 100)),
        z |-> pond.z + MulFP(sin(((k - 2) * 2 * PI) \div 4), Q(pond.r, 35, 100))]
  ELSE [x |-> pond.x + MulFP(cos(((k - 6) * 2 * PI) \div 12), Q(pond.r, 105, 100)),
        z |-> pond.z + MulFP(sin(((k - 6) * 2 * PI) \div 12), Q(pond.r, 105, 100))]

terrainVertexAt(G, p) == terrainVertex(G, p.x, p.z, terrainHeight(G, p.x, p.z))

\* createTerrain (lines 1023-1250): the vertices, and snowVolume with
\* lastApplied = -1 and timer = 0
createTerrainMesh(G) ==
  [grid |-> [i \in 1..Len(G.BIOME.ponds) |->
               [k \in 1..17 |-> terrainVertexAt(G, pondSamplePoint(G.BIOME.ponds[i], k))]],
   snowVolume |-> [lastApplied |-> -SnowFP, timer |-> 0]]

\* arr[i * 3 + 1] = baseY[i] + depth * w[i] * lerp(0.65, 1.35, n[i])
liftedVertex(v, depth) ==
  [v EXCEPT !.y = v.baseY + MulFP(MulFP(depth, v.snowWeight), lerp(650, 1350, v.snowNoise))]

\* lines 1264-1279: the mesh after the snow volume is applied for target
applySnowVolume(T, target) ==
  [grid |-> [i \in DOMAIN T.grid |->
               [k \in 1..17 |->
                  liftedVertex(T.grid[i][k], Q(pow(target \div FP, 1080), 22, 10))]],
   snowVolume |-> [lastApplied |-> target, timer |-> 180]]

\* updateTerrainSnowVolume(mesh, dt, force) with the timer already counted
\* down (lines 1257-1265)
snowVolumeDue(T, target, force) ==
  IF ~force /\ ((T.snowVolume.timer > 0 /\ Abs(target - T.snowVolume.lastApplied) < 10000)
                \/ Abs(target - T.snowVolume.lastApplied) < 2000)
  THEN T
  ELSE applySnowVolume(T, target)

\* updateTerrainSnowVolume(mesh, dt, force) (lines 1252-1283), M and S being sim
\* and seasonState
updateTerrainSnowVolume(T, M, S, dt, force) ==
  snowVolumeDue([T EXCEPT !.snowVolume.timer = Max(0, @ - dt)],
                clamp(M.snowCover * S.snowSimFactor, 0, SnowFP), force)

\* Math.min over the heights of vertices k..last of a pond's samples
RECURSIVE minY(_, _, _, _)
minY(V, k, last, best) ==
  IF k > last THEN best ELSE minY(V, k + 1, last, Min(best, V[k].y))

\* the level kept above the pond bed first (the branch of line 1844 taken
\* for a finite rim as well)
pondLevelFromBed(pond, basinMin, rimMin) ==
  Max(basinMin + MulFP(pond.depth, clamp(pond.fill, 250, 1250)), basinMin + 320)

\* lines 1826-1845: the level from basinMin and rimMin (both finite here)
pondLevelFrom(pond, basinMin, rimMin) ==
  IF rimMin - 100 <= basinMin + 320 THEN rimMin - 100
  ELSE clamp(basinMin + MulFP(pond.depth, clamp(pond.fill, 250, 1250)),
             basinMin + 320, rimMin - 100)

\* computePondWaterLevels(terrainMesh) (lines 1814-1849): BIOME after it; the
\* one assignment is pond.level = level. The variant also stores the rim
\* radius it sampled.
computePondWaterLevelsRim(B, T) ==
  [B EXCEPT !.ponds =
     [i \in 1..Len(B.ponds) |->
        [B.ponds[i] EXCEPT !.r = Q(@, 105, 100),
                           !.level =
           pondLevelFrom(B.ponds[i], minY(T.grid[i], 2, 5, T.grid[i][1].y),
                         minY(T.grid[i], 7, 17, T.grid[i][6].y))]]]
computePondWaterLevelsOf(B, T) ==
  [B EXCEPT !.ponds =
     [i \in 1..Len(B.ponds) |->
        [B.ponds[i] EXCEPT !.level =
           pondLevelFrom(B.ponds[i], minY(T.grid[i], 2, 5, T.grid[i][1].y),
                         minY(T.grid[i], 7, 17, T.grid[i][6].y))]]]

\* createPonds (lines 1876-1922): mesh.position.y of one mesh per pond
createPondMeshes(B) == [i \in 1..Len(B.ponds) |-> B.ponds[i].level + 80]

\* updatePonds(dt, force) past its first return: does it recompute (line 5169),
\* the timer already counted down
pondsDueEveryFrame(P, snowNow, force) ==
  force \/ P.pondLevelTimer <= 400 \/ Abs(snowNow - P.pondSnowApplied) >= 20000
pondsDue(P, snowNow, force) ==
  force \/ P.pondLevelTimer <= 0 \/ Abs(snowNow - P.pondSnowApplied) >= 20000

\* updatePonds(dt, force) (lines 5165-5174) with B the BIOME after it
pondGroupAfter(P, B, snowNow, dt, force) ==
  IF Len(P.pondMeshes) = 0 THEN P
  ELSE IF pondsDue([P EXCEPT !.pondLevelTimer = Max(0, @ - dt)], snowNow, force)
  THEN [pondMeshes |-> createPondMeshes(B), pondLevelTimer |-> 400,
        pondSnowApplied |-> snowNow]
  ELSE [P EXCEPT !.pondLevelTimer = Max(0, @ - dt)]

\* does updatePonds(dt, force) reach computePondWaterLevels
pondsRecomputed(P, snowNow, dt, force) ==
  /\ Len(P.pondMeshes) > 0
  /\ pondsDue([P EXCEPT !.pondLevelTimer = Max(0, @ - dt)], snowNow, force)

\* updatePonds(dt, force) on the state: T is the terrain mesh it samples
updatePonds(T, snowNow, dt, force) ==
  \E B \in {IF pondsRecomputed(pondGroup, snowNow, dt, force)
            THEN computePondWaterLevelsOf(BIOME[1], T) ELSE BIOME[1]} :
    /\ BIOME' = [BIOME EXCEPT ![1] = B]
    /\ pondGroup' = pondGroupAfter(pondGroup, B, snowNow, dt, force)
    /\ levelWrites' = IF pondsRecomputed(pondGroup, snowNow, dt, force)
                      THEN levelWrites + 1 ELSE levelWrites

\* ------------------------------------------------------------------------
\* app/app.js: construction, tick and the UI handlers
\* ------------------------------------------------------------------------

\* frames that ran an update in one run
MaxFrames == 8

\* dt = Math.min(dt, 0.05)
FrameCap == 50

\* dt of a frame after the caps of tick (lines 6203-6230): FRAME_DT = 1/60 s
\* on a fast display, and the cap
FrameDts == {17, FrameCap}

\* getTimeMetrics().day (lines 5828-5840): night and full day
DayFactors == {0, FP}

\* randSim() calls per frame of the parts of tick that are not modelled
\* (clouds, wildlife, lightning, particles)
OtherDraws == {0, 2}

genRest == <<args, pc, randWorld, ecoRng, loc, draws, RIVER_PROFILE, TERRAIN_PROFILE, ECO,
             heightOut, ecoOut, queries>>

\* const sim = {...} (lines 61-85) after syncSimFromDom: the mode fields come
\* from the DOM controls
simOf(weatherMode, seasonMode, precip) ==
  [paused |-> FALSE, weatherMode |-> weatherMode, seasonMode |-> seasonMode,
   precip |-> precip, cloudiness |-> 250, snowCover |-> 0, activeWeather |-> "clear",
   autoWeatherTimer |-> 0, autoWeatherTarget |-> "clear", groundWetness |-> 0,
   simTime |-> 0, timeOfDay |-> 14 * SnowFP, timeSpeedHoursPerMinute |-> 2 * FP,
   manualTimeDrag |-> FALSE]

\* line 5112: terrain = createTerrain()
createTerrain ==
  /\ appPc = "createWorldGen"
  /\ pc[1] = "done"
  /\ terrain' = createTerrainMesh(worldOf(1))
  /\ appPc' = "computePondWaterLevels"
  /\ UNCHANGED <<pageVars, rngVars, genVars, sim, seasonState, uSnow, randSim, pondGroup, frames,
                 events, levelWrites>>

\* line 5113: computePondWaterLevels(terrain)
pondLevelPass ==
  /\ appPc = "computePondWaterLevels"
  /\ BIOME' = [BIOME EXCEPT ![1] = computePondWaterLevelsOf(@, terrain)]
  /\ levelWrites' = IF Len(BIOME[1].ponds) > 0 THEN levelWrites + 1 ELSE levelWrites
  /\ appPc' = "createPonds"
  /\ UNCHANGED <<pageVars, rngVars, genRest, sim, seasonState, uSnow, randSim, terrain, pondGroup,
                 frames, events>>

\* line 5115: ponds = createPonds(); lines 5150-5151: pondLevelTimer = 0,
\* pondSnowApplied = -1
createPonds ==
  /\ appPc = "createPonds"
  /\ pondGroup' = [pondMeshes |-> createPondMeshes(BIOME[1]), pondLevelTimer |-> 0,
                   pondSnowApplied |-> -SnowFP]
  /\ appPc' = "updatePonds"
  /\ UNCHANGED <<pageVars, rngVars, genVars, sim, seasonState, uSnow, randSim, terrain, frames,
                 events, levelWrites>>

\* line 5176: updatePonds(0, true)
updatePondsForced ==
  /\ appPc = "updatePonds"
  /\ updatePonds(terrain, uSnow, 0, TRUE)
  /\ appPc' = "updateSeason"
  /\ UNCHANGED <<pageVars, rngVars, genRest, sim, seasonState, uSnow, randSim, terrain, frames, events>>

\* line 5794: updateSeason(0, true)
updateSeasonForced ==
  /\ appPc = "updateSeason"
  /\ seasonState' = updateSeason(seasonState, sim.seasonMode, 0, TRUE)
  /\ appPc' = "running"
  /\ UNCHANGED <<pageVars, rngVars, genVars, sim, uSnow, randSim, terrain, pondGroup, frames, events,
                 levelWrites>>

\* if (!sim.paused) (line 6258), and the variant that runs the simulation
\* whatever sim.paused is
simRunsAlways(M) == TRUE
simRuns(M) == ~M.paused

\* lines 6259-6266: simTime += dt and the time of day (in millionths of an
\* hour), which moves with the time speed unless the time slider is dragged
timeAfter(M, dt) ==
  [M EXCEPT !.simTime = @ + dt,
            !.timeOfDay = IF ~M.manualTimeDrag /\ M.timeSpeedHoursPerMinute > 0
                          THEN (@ + (dt * M.timeSpeedHoursPerMinute) \div 60) % (24 * SnowFP)
                          ELSE @]

\* tick (lines 6203-6374): with the simulation running updateSeason(dt),
\* updateWeather(dt, simTime, timeMeta.day), updateTerrainSnowVolume(terrain,
\* dt), updatePonds(dt); n is the number of randSim() calls of the other parts
\* of the frame; while it is paused updateSeason(0) (line 6363)
tick(dt, dayFactor, n) ==
  /\ appPc = "running"
  /\ IF simRuns(sim)
     THEN /\ frames < MaxFrames
          /\ \E S \in {updateSeason(seasonState, sim.seasonMode, dt, FALSE)} :
               \E M \in {updateWeather(timeAfter(sim, dt), S.name, Draws(randSim, 3), dt,
                                        dayFactor)} :
                 \E T \in {updateTerrainSnowVolume(terrain, M, S, dt, FALSE)} :
                   /\ seasonState' = S
                   /\ sim' = M
                   /\ randSim' = Skip(randSim,
                                      activeWeatherDraws(sim, S.name, Draws(randSim, 3), dt) + n)
                   /\ uSnow' = uSnowOf(M, S)
                   /\ terrain' = T
                   /\ updatePonds(T, uSnowOf(M, S), dt, FALSE)
          /\ frames' = frames + 1
     ELSE /\ seasonState' = updateSeason(seasonState, sim.seasonMode, 0, FALSE)
          /\ UNCHANGED <<sim, randSim, uSnow, terrain, pondGroup, BIOME, levelWrites, frames>>
  /\ UNCHANGED <<pageVars, rngVars, genRest, appPc, events>>

\* a UI event is handled between two frames of the running app
uiEvent ==
  /\ appPc = "running"
  /\ Callback

\* the values of the weather, season and precipitation controls
WeatherOptions == {"auto", "clear", "rain", "snow"}
SeasonOptions == {"auto", "summer", "winter"}
PrecipValues == {0, 650, FP}

\* dom.weather "change" (ui/settings.js lines 124-128)
weatherChange(m) ==
  /\ uiEvent
  /\ sim' = [sim EXCEPT !.weatherMode = m,
                        !.activeWeather = IF m # "auto" THEN m ELSE @]
  /\ UNCHANGED <<pageVars, rngVars, genVars, seasonState, uSnow, randSim, terrain, pondGroup, frames,
                 appPc, levelWrites>>

\* dom.precip "input" (lines 130-133)
precipInput(v) ==
  /\ uiEvent
  /\ sim' = [sim EXCEPT !.precip = v]
  /\ UNCHANGED <<pageVars, rngVars, genVars, seasonState, uSnow, randSim, terrain, pondGroup, frames,
                 appPc, levelWrites>>

\* dom.season "change" (lines 146-150): updateSeason(0, true)
seasonChange(m) ==
  /\ uiEvent
  /\ sim' = [sim EXCEPT !.seasonMode = m]
  /\ seasonState' = updateSeason(seasonState, m, 0, TRUE)
  /\ UNCHANGED <<pageVars, rngVars, genVars, uSnow, randSim, terrain, pondGroup, frames, appPc,
                 levelWrites>>

\* dom.presetGolden and dom.presetStorm "click" (lines 163-164): applyMoodPreset
presetClick(kind) ==
  /\ uiEvent
  /\ sim' = IF kind = "golden"
            THEN [sim EXCEPT !.weatherMode = "clear", !.precip = 150,
                             !.timeOfDay = 18400000]
            ELSE [sim EXCEPT !.weatherMode = "rain", !.precip = 920,
                             !.timeOfDay = 15200000]
  /\ UNCHANGED <<pageVars, rngVars, genVars, seasonState, uSnow, randSim, terrain, pondGroup, frames,
                 appPc, levelWrites>>

\* dom.pause "click" (lines 173-176)
pauseClick ==
  /\ uiEvent
  /\ sim' = [sim EXCEPT !.paused = ~@]
  /\ UNCHANGED <<pageVars, rngVars, genVars, seasonState, uSnow, randSim, terrain, pondGroup, frames,
                 appPc, levelWrites>>

\* dom.reset "click" (ui/settings.js lines 178-181): resetSim (app.js lines 160-187)
resetSim ==
  /\ uiEvent
  /\ \E M \in {[sim EXCEPT !.paused = FALSE, !.weatherMode = "auto",
                           !.activeWeather = "clear", !.autoWeatherTimer = 0,
                           !.autoWeatherTarget = "clear", !.precip = 650,
                           !.cloudiness = 250, !.snowCover = 0, !.simTime = 0,
                           !.timeOfDay = 14 * SnowFP,
                           !.timeSpeedHoursPerMinute = 2 * FP]} :
       /\ sim' = M
       /\ uSnow' = M.snowCover
       /\ terrain' = updateTerrainSnowVolume(terrain, M, seasonState, 0, TRUE)
  /\ UNCHANGED <<pageVars, rngVars, genVars, seasonState, randSim, pondGroup, frames, appPc, levelWrites>>

\* the app of one page load on a display slower than 20 frames a second
\* (every dt is the cap): WORLD_SEED and the mode controls are its inputs
AppSeeds == {W(0, 12345)}
AppBiomes == {[modeType |-> "string", biomeMode |-> "mainland"],
              [modeType |-> "string", biomeMode |-> "miniIslands"]}

AppInit(ws, biome, weatherMode, seasonMode, precip) ==
  /\ GenInit([a |-> Arg(ws, TRUE, biome), rw |-> appRandWorld(ws)], "start",
             [a |-> Arg(ws, TRUE, biome), rw |-> NotAFunction], "idle")
  /\ appPc = "createWorldGen"
  /\ sim = simOf(weatherMode, seasonMode, precip)
  /\ seasonState = seasonStart(seasonPhaseOf(ws))
  /\ uSnow = 0
  /\ randSim = appRandSim(ws)
  /\ terrain = <<>>
  /\ pondGroup = <<>>
  /\ frames = 0
  /\ events = 0
  /\ levelWrites = 0
  /\ PageIdle

InitApp ==
  /\ RngInit(W(0, 0), W(0, 0))
  /\ \E ws \in AppSeeds, b \in AppBiomes, wm \in {"auto", "snow"} :
       AppInit(ws, b, wm, "winter", 650)

NextApp ==
  \/ Build(1)
  \/ terrainHeightQuery(1)
  \/ sampleToQuery(1)
  \/ createTerrain
  \/ pondLevelPass
  \/ createPonds
  \/ updatePondsForced
  \/ updateSeasonForced
  \/ \E df \in DayFactors, n \in OtherDraws : tick(FrameCap, df, n)
  \/ \E m \in WeatherOptions : weatherChange(m)
  \/ \E v \in PrecipValues : precipInput(v)
  \/ \E m \in SeasonOptions : seasonChange(m)
  \/ \E k \in {"golden", "storm"} : presetClick(k)
  \/ pauseClick
  \/ resetSim

SpecApp == InitApp /\ [][NextApp]_vars

\* ------------------------------------------------------------------------
\* utils/rng.js: parseSeed and resolveWorldSeed
\* ------------------------------------------------------------------------

\* A string is a sequence of one-character strings; null is Absent.

DigitChars == <<"0", "1", "2", "3", "4", "5", "6", "7", "8", "9">>
HexChars == <<"a", "b", "c", "d", "e", "f">>
HexCharsUpper == <<"A", "B", "C", "D", "E", "F">>

\* the index of c in the sequence cs, 0 when it is not there
RECURSIVE IndexOf(_, _, _)
IndexOf(cs, c, i) == IF i > Len(cs) THEN 0 ELSE IF cs[i] = c THEN i ELSE IndexOf(cs, c, i + 1)

IsDigit(c) == IndexOf(DigitChars, c, 1) > 0
IsHexDigit(c) ==
  IsDigit(c) \/ IndexOf(HexChars, c, 1) > 0 \/ IndexOf(HexCharsUpper, c, 1) > 0

\* the value of a hexadecimal digit
HexVal(c) ==
  IF IsDigit(c) THEN IndexOf(DigitChars, c, 1) - 1
  ELSE IF IndexOf(HexChars, c, 1) > 0 THEN 9 + IndexOf(HexChars, c, 1)
  ELSE 9 + IndexOf(HexCharsUpper, c, 1)

\* str.charCodeAt(i) for the characters used
charCodeAt(c) ==
  IF IsDigit(c) THEN 47 + IndexOf(DigitChars, c, 1)
  ELSE IF IndexOf(HexChars, c, 1) > 0 THEN 96 + IndexOf(HexChars, c, 1)
  ELSE IF IndexOf(HexCharsUpper, c, 1) > 0 THEN 64 + IndexOf(HexCharsUpper, c, 1)
  ELSE IF c = " " THEN 32
  ELSE IF c = "-" THEN 45
  ELSE IF c = "X" THEN 88
  ELSE IF c = "x" THEN 120
  ELSE 122

\* value.trim()
RECURSIVE trimStart(_)
trimStart(s) == IF Len(s) > 0 /\ s[1] = " " THEN trimStart(Tail(s)) ELSE s
RECURSIVE trimEnd(_)
trimEnd(s) ==
  IF Len(s) > 0 /\ s[Len(s)] = " " THEN trimEnd(SubSeq(s, 1, Len(s) - 1)) ELSE s
trim(s) == trimEnd(trimStart(s))

\* /^\d+$/.test(t) and /^0x[0-9a-f]+$/i.test(t)
isDecimal(t) == Len(t) > 0 /\ \A i \in 1..Len(t) : IsDigit(t[i])
isHex(t) ==
  /\ Len(t) > 2
  /\ t[1] = "0"
  /\ t[2] \in {"x", "X"}
  /\ \A i \in 3..Len(t) : IsHexDigit(t[i])

\* Number(t) of a digit string in base b from position i on, as the integer
\* hi * 2^16 + lo with hi not reduced (at most ten decimal or eight
\* hexadecimal digits, so that the double is exact)
RECURSIVE NumberOf(_, _, _, _)
NumberOf(t, b, i, acc) ==
  IF i > Len(t) THEN acc
  ELSE NumberOf(t, b, i + 1,
                W(acc.hi * b + (acc.lo * b + HexVal(t[i])) \div H16,
                  (acc.lo * b + HexVal(t[i])) % H16))

\* hashStringToUint32(str) (lines 14-21): h = 2166136261, then for each
\* character h ^= code; h = Math.imul(h, 16777619). hashPrefix is h after the
\* first n characters, each step taken on the value of the step before.
hashStep(h, code) == Imul(Xor32(h, W(0, code)), W(256, 403))

RECURSIVE hashPrefix(_, _)
hashPrefix(str, n) ==
  IF n = 0 THEN W(33052, 40389)
  ELSE CHOOSE h \in {hashStep(p, charCodeAt(str[n])) : p \in {hashPrefix(str, n - 1)}} : TRUE

\* return h >>> 0
hashStringToUint32(str) == ToUint32(hashPrefix(str, Len(str)))

\* parseSeed(value) of a string (lines 23-30); the variant leaves out >>> 0
parseSeedNoWrap(value) ==
  IF trim(value) = <<>> THEN NoSeed
  ELSE IF isDecimal(trim(value)) THEN NumberOf(trim(value), 10, 1, W(0, 0))
  ELSE IF isHex(trim(value)) THEN NumberOf(trim(value), 16, 3, W(0, 0))
  ELSE hashStringToUint32(trim(value))
parseSeed(value) ==
  IF trim(value) = <<>> THEN NoSeed
  ELSE IF isDecimal(trim(value)) THEN ToUint32(NumberOf(trim(value), 10, 1, W(0, 0)))
  ELSE IF isHex(trim(value)) THEN ToUint32(NumberOf(trim(value), 16, 3, W(0, 0)))
  ELSE hashStringToUint32(trim(value))

\* v ?? ""
orEmpty(v) == IF v = Absent THEN <<>> ELSE v

\* the decimal digits of an unsigned 32-bit integer
RECURSIVE Decimal(_)
Decimal(w) ==
  IF w.hi = 0 /\ w.lo < 10 THEN <<DigitChars[w.lo + 1]>>
  ELSE Append(Decimal(W(w.hi \div 10, ((w.hi % 10) * H16 + w.lo) \div 10)),
              DigitChars[(((w.hi % 10) * H16 + w.lo) % 10) + 1])

\* String(seed) of the unsigned 32-bit seed; the variant is String(seed | 0),
\* the seed as a signed integer
StringOfSigned(w) ==
  IF w.hi < 32768 THEN Decimal(w)
  ELSE <<"-">> \o Decimal(IF w.lo = 0 THEN W(H16 - w.hi, 0)
                          ELSE W(H16 - 1 - w.hi, H16 - w.lo))
StringOf(w) == Decimal(w)

\* resolveWorldSeed calls in one run
MaxResolves == 3

\* resolveWorldSeed({ search, storage }) (lines 32-63): what it returns and
\* whether it stored it. param is params.get("seed"); getThrows and setThrows
\* say whether storage.getItem and storage.setItem throw in this call; rnd is
\* the value crypto.getRandomValues or Math.random gives.
resolveOf(param, stored, getThrows, setThrows, rnd) ==
  IF parseSeed(orEmpty(param)) # NoSeed
  THEN [from |-> "url", seed |-> parseSeed(orEmpty(param)), wrote |-> ~setThrows,
        getThrew |-> FALSE, param |-> param, before |-> stored, rnd |-> NoSeed]
  ELSE IF ~getThrows /\ parseSeed(orEmpty(stored)) # NoSeed
  THEN [from |-> "stored", seed |-> parseSeed(orEmpty(stored)), wrote |-> FALSE,
        getThrew |-> FALSE, param |-> param, before |-> stored, rnd |-> NoSeed]
  ELSE [from |-> "random", seed |-> rnd, wrote |-> ~setThrows,
        getThrew |-> getThrows, param |-> param, before |-> stored, rnd |-> rnd]

\* the record of the calls keeps the arguments of the last call only
Earlier(log) ==
  [i \in 1..Len(log) |-> [log[i] EXCEPT !.param = Absent, !.before = Absent, !.rnd = NoSeed]]

resolveWorldSeed(param, getThrows, setThrows, rnd) ==
  /\ Len(resolved) < MaxResolves
  /\ \E r \in {resolveOf(param, session, getThrows, setThrows, rnd)} :
       /\ resolved' = Append(Earlier(resolved), r)
       /\ session' = IF r.wrote THEN StringOf(r.seed) ELSE session
  /\ UNCHANGED <<rngVars, genVars, appVars, local, loaded, saved, dom, ctlVars>>

\* the seed parameter of the URL: none, "", " ", "12345", " 42 ",
\* "4294967301", "0x1F", "0XfffffffF", "x-5"
UrlParams ==
  {Absent, <<>>, <<" ">>, <<"1", "2", "3", "4", "5">>, <<" ", "4", "2", " ">>,
   <<"4", "2", "9", "4", "9", "6", "7", "3", "0", "1">>, <<"0", "x", "1", "F">>,
   <<"0", "X", "f", "f", "f", "f", "f", "f", "f", "F">>, <<"x", "-", "5">>}

\* values of the random source
RandomSeeds == {W(0, 0), W(65535, 65535)}

\* page loads on one session storage: empty, or holding the seed an earlier
\* page load stored
InitSeed ==
  /\ RngInit(W(0, 0), W(0, 0))
  /\ GenInit(NoGen, "idle", NoGen, "idle")
  /\ appPc = "idle" /\ sim = <<>> /\ seasonState = <<>> /\ uSnow = 0
  /\ randSim = NotAFunction /\ terrain = <<>> /\ pondGroup = <<>>
  /\ frames = 0 /\ events = 0 /\ levelWrites = 0
  /\ session \in {Absent, StringOf(W(0, 777))}
  /\ resolved = <<>>
  /\ local = Absent
  /\ loaded = Absent
  /\ saved = Absent
  /\ dom = <<>>
  /\ CtlIdle

NextSeed ==
  \E param \in UrlParams, getThrows \in BOOLEAN, setThrows \in BOOLEAN, rnd \in RandomSeeds :
    resolveWorldSeed(param, getThrows, setThrows, rnd)

SpecSeed == InitSeed /\ [][NextSeed]_vars

\* ------------------------------------------------------------------------
\* ui/settings.js: loadSettings, saveSettings, applySavedSettingsToDom
\* ------------------------------------------------------------------------

\* A JavaScript value with its typeof: a string s, a number n (thousandths),
\* or a value of another type. A numeric string (String(n)) is a string that
\* keeps its number.
Val(t, str, n) == [t |-> t, s |-> str, n |-> n]
Str(str) == Val("string", str, 0)
Num(n) == Val("number", "", n)
Undefined == Val("undefined", "", 0)

\* String(number), and Number(string) of a string String produced
StringOfNumber(v) == Val("string", "#", v.n)
NumberOfString(v) == IF v.s = "#" THEN Num(v.n) ELSE Val("number", "NaN", 0)

\* the nine persisted fields (saveSettings, lines 18-28) and the typeof that
\* applySavedSettingsToDom asks of each (lines 37-45)
StringFields == {"qualityMode", "seasonMode", "biomeMode", "cameraMode", "weatherMode"}
NumberFields == {"tiltFocus", "precip", "windUser", "timeSpeedHoursPerMinute"}
Fields == StringFields \cup NumberFields
ExpectedType(f) == IF f \in StringFields THEN "string" ELSE "number"

\* the controls applySavedSettingsToDom and syncSimFromDom test for (dom.quality
\* && ..., dom.quality?.value); the other four are used unguarded
GuardedControls == {"qualityMode", "seasonMode", "biomeMode", "cameraMode", "tiltFocus"}

\* a stored text: kind is "null" (no item), "empty" (""), "text" (not JSON) or
\* "json"; for JSON root is the type of the value it denotes and fields the
\* members of an object (Undefined for a member it lacks)
Text(kind, root, fields) == [kind |-> kind, root |-> root, fields |-> fields]
NoFields == [f \in Fields |-> Undefined]
NoText == Text("null", "", NoFields)

\* JSON.stringify(data) of the object saveSettings builds: a member that is
\* undefined is left out
stringify(data) ==
  Text("json", "object", [f \in Fields |-> IF data[f].t = "undefined" THEN Undefined
                                           ELSE data[f]])

\* what loadSettings returns for the item raw (lines 6-10); a result of kind
\* "null" is null, and JSON.parse throws on a text that is not JSON. The
\* variant leaves out the typeof test.
NullResult == Text("null", "", NoFields)
loadOfAny(raw) ==
  IF raw.kind \in {"null", "empty", "text"} THEN NullResult
  ELSE IF raw.root \in {"null", "false", "zero"} THEN NullResult
  ELSE Text("value", raw.root, raw.fields)
loadOf(raw) ==
  IF raw.kind \in {"null", "empty", "text"} THEN NullResult
  ELSE IF raw.root \in {"null", "false", "zero"} THEN NullResult
  ELSE IF raw.root \notin {"object", "array"} THEN NullResult
  ELSE Text("value", raw.root, raw.fields)

\* loadSettings(storage) (lines 4-14): the try block catches a getItem that
\* throws
loadSettings(getThrows) ==
  /\ loaded' = [called |-> TRUE, outcome |-> "returned",
                result |-> IF getThrows THEN NullResult ELSE loadOf(local),
                getThrew |-> getThrows, raw |-> local, after |-> saved]
  /\ UNCHANGED <<rngVars, genVars, appPc, seasonState, uSnow, randSim, terrain, pondGroup,
                 frames, events, levelWrites, sim, session, resolved, local, saved, dom,
                 ctlVars>>

\* saveSettings(sim, storage) (lines 16-33): M is sim
saveSettingsOf(M, setThrows) ==
  /\ saved' = [called |-> TRUE, outcome |-> "returned", data |-> M, setThrew |-> setThrows]
  /\ local' = IF setThrows THEN local ELSE stringify(M)

\* a control's "input" or "change" handler (lines 119-171): it sets the sim
\* field from the control and calls save
controlInput(f, v, setThrows) ==
  /\ dom.has[f]
  /\ dom' = [dom EXCEPT !.value[f] = IF f \in NumberFields THEN StringOfNumber(v) ELSE v,
                        !.applied = {}, !.from = NullResult]
  /\ sim' = [sim EXCEPT ![f] = v]
  /\ saveSettingsOf([sim EXCEPT ![f] = v], setThrows)
  /\ UNCHANGED <<rngVars, genVars, appPc, seasonState, uSnow, randSim, terrain, pondGroup,
                 frames, events, levelWrites, session, resolved, loaded, ctlVars>>

\* does applySavedSettingsToDom assign the control of field f (lines 37-45)
applies(D, data, f) ==
  /\ data.kind # "null"
  /\ f \in GuardedControls => D.has[f]
  /\ data.fields[f].t = ExpectedType(f)

\* applySavedSettingsToDom(savedSettings, dom) (lines 35-46)
applySavedSettingsToDom(D, data) ==
  [has |-> D.has,
   value |-> [f \in Fields |->
                IF applies(D, data, f)
                THEN IF f \in NumberFields THEN StringOfNumber(data.fields[f])
                     ELSE data.fields[f]
                ELSE D.value[f]],
   applied |-> {f \in Fields : applies(D, data, f)},
   from |-> data]

\* syncSimFromDom(sim, dom) (lines 48-59)
syncSimFromDom(M, D) ==
  [f \in Fields |->
     IF f \in GuardedControls /\ ~D.has[f]
     THEN IF f = "tiltFocus" /\ M[f].t = "string" THEN NumberOfString(M[f]) ELSE M[f]
     ELSE IF f \in NumberFields THEN NumberOfString(D.value[f])
     ELSE D.value[f]]

\* app.js lines 91-94: if (savedSettings) { applySavedSettingsToDom(...);
\* syncSimFromDom(sim, dom) }
applySaved ==
  /\ loaded.called
  /\ dom' = applySavedSettingsToDom(dom, loaded.result)
  /\ sim' = IF loaded.result.kind = "null" THEN sim
            ELSE syncSimFromDom(sim, applySavedSettingsToDom(dom, loaded.result))
  /\ UNCHANGED <<rngVars, genVars, appPc, seasonState, uSnow, randSim, terrain, pondGroup,
                 frames, events, levelWrites, session, resolved, local, loaded, saved,
                 ctlVars>>

\* the controls as the page defines them, with the guarded controls all
\* there or all missing
DomDefault(guarded) ==
  [has |-> [f \in Fields |-> f \notin GuardedControls \/ guarded],
   value |-> [qualityMode |-> Str("auto"), seasonMode |-> Str("auto"),
              biomeMode |-> Str("mainland"), cameraMode |-> Str("normal"),
              weatherMode |-> Str("auto"), tiltFocus |-> StringOfNumber(Num(560)),
              precip |-> StringOfNumber(Num(650)), windUser |-> StringOfNumber(Num(FP)),
              timeSpeedHoursPerMinute |-> StringOfNumber(Num(2 * FP))],
   applied |-> {}, from |-> NullResult]

\* const sim = {...} (app.js lines 61-85): the persisted fields
SimDefault(D) ==
  [f \in Fields |-> IF f \in NumberFields THEN NumberOfString(D.value[f]) ELSE D.value[f]]

\* items found under SETTINGS_KEY that saveSettings did not write: none, "",
\* a text that is not JSON, the JSON texts null, 7, "x", [1] and {}, and
\* objects whose members have other types than saveSettings writes
ForeignTexts ==
  {NoText, Text("empty", "", NoFields), Text("text", "", NoFields),
   Text("json", "null", NoFields), Text("json", "number", NoFields),
   Text("json", "string", NoFields), Text("json", "array", NoFields),
   Text("json", "object", NoFields),
   Text("json", "object",
        [NoFields EXCEPT !.weatherMode = Num(3), !.precip = Str("0.5"),
                         !.seasonMode = Str("winter"), !.tiltFocus = Num(300),
                         !.windUser = Val("boolean", "", 0)])}

\* the values a user gives the controls
ControlInputs ==
  {<<"weatherMode", Str("snow")>>, <<"precip", Num(920)>>, <<"tiltFocus", Num(300)>>}

InitSettings ==
  /\ RngInit(W(0, 0), W(0, 0))
  /\ GenInit(NoGen, "idle", NoGen, "idle")
  /\ appPc = "idle" /\ seasonState = <<>> /\ uSnow = 0
  /\ randSim = NotAFunction /\ terrain = <<>> /\ pondGroup = <<>>
  /\ frames = 0 /\ events = 0 /\ levelWrites = 0
  /\ session = Absent
  /\ resolved = <<>>
  /\ \E guarded \in BOOLEAN :
       /\ dom = DomDefault(guarded)
       /\ sim = SimDefault(DomDefault(guarded))
  /\ local \in ForeignTexts
  /\ loaded = [called |-> FALSE, outcome |-> "returned", result |-> NullResult,
               getThrew |-> FALSE, raw |-> NoText,
               after |-> [called |-> FALSE, outcome |-> "returned",
                          data |-> NoFields, setThrew |-> FALSE]]
  /\ saved = [called |-> FALSE, outcome |-> "returned", data |-> NoFields,
              setThrew |-> FALSE]
  /\ CtlIdle

NextSettings ==
  \/ \E getThrows \in BOOLEAN : loadSettings(getThrows)
  \/ \E c \in ControlInputs, setThrows \in BOOLEAN : controlInput(c[1], c[2], setThrows)
  \/ applySaved

SpecSettings == InitSettings /\ [][NextSettings]_vars

\* ------------------------------------------------------------------------
\* app/app.js: the weather of a world some way into its run
\* ------------------------------------------------------------------------

\* the seeds, auto-weather timers and snow covers of the worlds looked at
WeatherSeeds == {W(0, 12345), W(0, 777)}
WeatherTimers == {40, FrameCap, 60, 30 * FP}
SnowCovers == {0, 500, SnowFP \div 2, SnowFP - 500}

\* the frames left to such a world
WeatherFrames == 3

\* a running world without ponds (an islands world) after some update: the
\* active weather and uSnow are what that update left (lines 5963-5965, 6065)
\* and the terrain has the snow volume of that uSnow
\* the simulated time at which the paused ones of those worlds were paused
PausedAt == 7 * FP

WorldInit(ws, phase, weatherMode, seasonMode, timer, target, cover, paused) ==
  /\ GenInit(NoGen, "idle", NoGen, "idle")
  /\ appPc = "running"
  /\ sim = [simOf(weatherMode, seasonMode, 650) EXCEPT
              !.autoWeatherTimer = timer, !.autoWeatherTarget = target,
              !.activeWeather = IF weatherMode = "auto" THEN target ELSE weatherMode,
              !.snowCover = cover, !.paused = paused,
              !.simTime = IF paused THEN PausedAt ELSE 0]
  /\ \E S \in {updateSeason(seasonStart(phase), seasonMode, 0, TRUE)} :
       /\ seasonState = S
       /\ uSnow = cover * S.snowSimFactor
       /\ terrain = [grid |-> <<>>,
                     snowVolume |-> [lastApplied |-> cover * S.snowSimFactor, timer |-> 0]]
  /\ randSim = appRandSim(ws)
  /\ pondGroup = [pondMeshes |-> <<>>, pondLevelTimer |-> 0, pondSnowApplied |-> -SnowFP]
  /\ frames = MaxFrames - WeatherFrames
  /\ events = 0
  /\ levelWrites = 0
  /\ PageIdle

WeatherInit(ws, weatherMode, seasonMode, timer, target, cover, paused) ==
  WorldInit(ws, seasonPhaseOf(ws), weatherMode, seasonMode, timer, target, cover, paused)

\* the weather controls of those worlds: auto with each timer and target, and
\* two manual modes
WeatherCases ==
  {<<"auto", timer, target>> : timer \in WeatherTimers, target \in {"rain", "blizzard"}}
    \cup {<<"snow", 30 * FP, "rain">>, <<"clear", 30 * FP, "blizzard">>}

InitWeather ==
  /\ RngInit(W(0, 0), W(0, 0))
  /\ \E ws \in WeatherSeeds, c \in WeatherCases, sm \in {"winter", "summer"},
        cover \in SnowCovers, paused \in BOOLEAN :
       WeatherInit(ws, c[1], sm, c[2], c[3], cover, paused)

NextWeather ==
  \/ \E df \in DayFactors, n \in OtherDraws : tick(FrameCap, df, n)
  \/ \E m \in WeatherOptions : weatherChange(m)
  \/ \E v \in PrecipValues : precipInput(v)
  \/ \E m \in SeasonOptions : seasonChange(m)
  \/ \E k \in {"golden", "storm"} : presetClick(k)
  \/ pauseClick
  \/ resetSim

SpecWeather == InitWeather /\ [][NextWeather]_vars

\* ------------------------------------------------------------------------
\* app/app.js: the seasons of a world some way into its year
\* ------------------------------------------------------------------------

\* times into the year, shortly before each change of season, at the start
\* of the year and inside a season
YearPhases ==
  {0, 120 * FP - 60, 240 * FP - FrameCap, 360 * FP - 120, 480 * FP - 20, 300 * FP}

\* the values of the season select, and a seasonMode of a saved settings
\* object that names no season
SeasonModes == {"auto", "spring", "winter", "monsoon"}

\* the steps dt of a frame: 1/60 s and the largest one
FrameSteps == {17, FrameCap}

InitSeason ==
  /\ RngInit(W(0, 0), W(0, 0))
  /\ \E phase \in YearPhases, sm \in SeasonModes, paused \in BOOLEAN :
       WorldInit(W(0, 777), phase, "clear", sm, 30 * FP, "clear", 0, paused)

NextSeason ==
  \/ \E dt \in FrameSteps : tick(dt, FP, 0)
  \/ \E m \in SeasonModes : seasonChange(m)
  \/ pauseClick

SpecSeason == InitSeason /\ [][NextSeason]_vars

\* ------------------------------------------------------------------------
\* app/app.js: the construction of worlds up to the forced pond pass
\* ------------------------------------------------------------------------

\* the seeds of the worlds whose pond levels are looked at
PondSeeds == {W(0, s) : s \in 1..6}

InitPonds ==
  /\ RngInit(W(0, 0), W(0, 0))
  /\ \E ws \in PondSeeds, b \in AppBiomes : AppInit(ws, b, "auto", "auto", 650)

NextPonds ==
  \/ Build(1)
  \/ createTerrain
  \/ pondLevelPass
  \/ createPonds
  \/ updatePondsForced

SpecPonds == InitPonds /\ [][NextPonds]_vars

\* ------------------------------------------------------------------------
\* controls/firstPerson.js (src/unnamed/part_003): the first-person controller
\* ------------------------------------------------------------------------

\* firstPerson holds state (enabled, yaw, pitch, worldHalf, eyeHeight;
\* constrained says that getGroundHeight and getWaterLevel are functions),
\* keyDown, camera.position, and the pointer lock of the document: locked is
\* document.pointerLockElement === domElement, requesting and exiting are the
\* requestPointerLock and exitPointerLock calls the browser has not yet
\* carried out; moved counts the updates that moved the camera.

\* camera moves in one run
MaxMoves == 1

\* the keys pressed, and the yaw the mouse may turn to
Keys == {"w", "s", "d", "shift"}
MovementKeys == {"w", "s", "a", "d", "arrowup", "arrowdown", "arrowleft", "arrowright"}
MinYaw == -(PI \div 2)

\* camera.quaternion as yaw and pitch (Euler order YXZ): where resetCamera
\* and controls.update() leave the camera (at (96, 64, 116), looking at
\* (0, 10, 0)), and where the orbit controls leave it when it is turned to
\* look straight down (minPolarAngle is 0)
ResetEuler == [yaw |-> 692, pitch |-> -345]
CameraEulers == {ResetEuler, [yaw |-> 0, pitch |-> -(PI \div 2)]}

\* the constraints of app.js lines 765-770 with a ground that rises with x:
\* below the water at the origin, above it at x = 96
GroundAt(x, z) == x \div 50 - 2500
WaterAt == WORLD.waterLevel

\* isLocked()
isLocked(F) == F.locked

\* setEnabled(next) (lines 36-41) with unlock() (lines 48-50)
setEnabled(next) ==
  /\ firstPerson' =
       IF firstPerson.enabled = next THEN firstPerson
       ELSE [firstPerson EXCEPT !.enabled = next,
                                !.exiting = IF ~next /\ firstPerson.locked THEN TRUE ELSE @]
  /\ UNCHANGED <<rngVars, genVars, appVars, session, resolved, local, loaded, saved, dom,
                 clouds, frameCapAccum, fps, starField>>

\* onPointerDown(ev) (lines 74-78) with lock() (lines 43-46)
onPointerDown(button) ==
  /\ firstPerson' =
       IF firstPerson.enabled /\ button = 0 /\ ~firstPerson.locked
       THEN [firstPerson EXCEPT !.requesting = TRUE]
       ELSE firstPerson
  /\ UNCHANGED <<rngVars, genVars, appVars, session, resolved, local, loaded, saved, dom,
                 clouds, frameCapAccum, fps, starField>>

\* onPointerLockChange() (lines 110-113) on the controller F, the lock being
\* as F says; the variant clears the keys whether enabled or not
onPointerLockChangeAlways(F) ==
  IF ~isLocked(F) THEN [F EXCEPT !.keyDown = {}] ELSE F
onPointerLockChange(F) ==
  IF F.enabled /\ ~isLocked(F) THEN [F EXCEPT !.keyDown = {}] ELSE F

\* the browser grants the lock asked for and fires pointerlockchange
lockGranted ==
  /\ firstPerson.requesting
  /\ firstPerson' = onPointerLockChange([firstPerson EXCEPT !.requesting = FALSE,
                                                            !.locked = TRUE])
  /\ UNCHANGED <<rngVars, genVars, appVars, session, resolved, local, loaded, saved, dom,
                 clouds, frameCapAccum, fps, starField>>

\* the lock ends (the user presses Escape, or the browser carries out
\* exitPointerLock) and the browser fires pointerlockchange
lockLost ==
  /\ firstPerson.locked
  /\ firstPerson' = onPointerLockChange([firstPerson EXCEPT !.exiting = FALSE,
                                                            !.locked = FALSE])
  /\ UNCHANGED <<rngVars, genVars, appVars, session, resolved, local, loaded, saved, dom,
                 clouds, frameCapAccum, fps, starField>>

\* onKeyDown(ev) (lines 97-103): ignored says that the event's target is an
\* input, select or textarea
onKeyDown(key, ignored) ==
  /\ firstPerson' =
       IF firstPerson.enabled /\ isLocked(firstPerson) /\ ~ignored
       THEN [firstPerson EXCEPT !.keyDown = @ \cup {key}]
       ELSE firstPerson
  /\ UNCHANGED <<rngVars, genVars, appVars, session, resolved, local, loaded, saved, dom,
                 clouds, frameCapAccum, fps, starField>>

\* onKeyUp(ev) (lines 105-108)
onKeyUp(key) ==
  /\ firstPerson' =
       IF firstPerson.enabled THEN [firstPerson EXCEPT !.keyDown = @ \ {key}]
       ELSE firstPerson
  /\ UNCHANGED <<rngVars, genVars, appVars, session, resolved, local, loaded, saved, dom,
                 clouds, frameCapAccum, fps, starField>>

\* state.pitch = clamp(state.pitch, -1.35, 1.35), and the variant without it
pitchOfFree(p) == p
pitchOf(p) == clamp(p, -1350, 1350)

\* onMouseMove(ev) (lines 80-89): mouseSensitivity is 0.0022 a pixel
onMouseMove(mx, my) ==
  /\ firstPerson.enabled /\ isLocked(firstPerson) => firstPerson.yaw - Q(mx, 22, 10) >= MinYaw
  /\ firstPerson' =
       IF firstPerson.enabled /\ isLocked(firstPerson)
       THEN [firstPerson EXCEPT !.yaw = @ - Q(mx, 22, 10),
                                !.pitch = pitchOf(@ - Q(my, 22, 10))]
       ELSE firstPerson
  /\ UNCHANGED <<rngVars, genVars, appVars, session, resolved, local, loaded, saved, dom,
                 clouds, frameCapAccum, fps, starField>>

\* syncRotationFromCamera() (lines 52-58), called by applyCameraMode before
\* setEnabled(true) (app.js lines 196-197) and by resetCamera (app.js lines
\* 150-155); while the controller is enabled the orbit controls are not, and
\* the camera is turned by the controller or put back by resetCamera
syncRotationFromCamera(e) ==
  /\ firstPerson.enabled => e = ResetEuler
  /\ firstPerson' = [firstPerson EXCEPT !.yaw = e.yaw, !.pitch = e.pitch]
  /\ UNCHANGED <<rngVars, genVars, appVars, session, resolved, local, loaded, saved, dom,
                 clouds, frameCapAccum, fps, starField>>

\* forwardKey and strafeKey (lines 140-141)
held(F, k) == IF k \in F.keyDown THEN 1 ELSE 0
forwardKey(F) == held(F, "w") + held(F, "arrowup") - held(F, "s") - held(F, "arrowdown")
strafeKey(F) == held(F, "d") + held(F, "arrowright") - held(F, "a") - held(F, "arrowleft")

\* lines 144-155: move, forward being the camera's direction on the ground
\* and right = forward x up
moveOf(F) ==
  normalize([x |-> -sin(F.yaw) * forwardKey(F) + cos(F.yaw) * strafeKey(F),
             y |-> -cos(F.yaw) * forwardKey(F) - sin(F.yaw) * strafeKey(F)])

\* does update(dt) get past its early returns (lines 133-142)
updateMoves(F) ==
  /\ F.enabled
  /\ isLocked(F)
  /\ F.constrained /\ F.worldHalf > 0
  /\ ~(forwardKey(F) = 0 /\ strafeKey(F) = 0)

\* camera.position after lines 157-163, then its height (lines 165-168); the
\* variant leaves out the clamp to the world
positionFree(F, dt) ==
  [x |-> F.camera.x + MulFP(moveOf(F).x,
                            IF "shift" \in F.keyDown THEN Q(18 * dt, 22, 10) ELSE 18 * dt),
   z |-> F.camera.z + MulFP(moveOf(F).y,
                            IF "shift" \in F.keyDown THEN Q(18 * dt, 22, 10) ELSE 18 * dt)]
position(F, dt) ==
  [x |-> clamp(F.camera.x + MulFP(moveOf(F).x,
                 IF "shift" \in F.keyDown THEN Q(18 * dt, 22, 10) ELSE 18 * dt),
               -Q(F.worldHalf, 98, 100), Q(F.worldHalf, 98, 100)),
   z |-> clamp(F.camera.z + MulFP(moveOf(F).y,
                 IF "shift" \in F.keyDown THEN Q(18 * dt, 22, 10) ELSE 18 * dt),
               -Q(F.worldHalf, 98, 100), Q(F.worldHalf, 98, 100))]
standing(F, p) ==
  [x |-> p.x, z |-> p.z,
   y |-> (IF GroundAt(p.x, p.z) < WaterAt + 150 THEN WaterAt ELSE GroundAt(p.x, p.z))
         + F.eyeHeight]

\* update(dt) (lines 132-169)
fpUpdate(dt) ==
  /\ updateMoves(firstPerson) => firstPerson.moved < MaxMoves
  /\ firstPerson' =
       IF updateMoves(firstPerson)
       THEN [firstPerson EXCEPT !.camera = standing(firstPerson, position(firstPerson, dt)),
                                !.moved = @ + 1]
       ELSE firstPerson
  /\ UNCHANGED <<rngVars, genVars, appVars, session, resolved, local, loaded, saved, dom,
                 clouds, frameCapAccum, fps, starField>>

\* createFirstPersonController (lines 7-30, 171-173), the camera at pos, and
\* setConstraints (lines 67-72) called as app.js does when constrained
FpInit(pos, constrained) ==
  [enabled |-> FALSE, yaw |-> 0, pitch |-> 0,
   worldHalf |-> IF constrained THEN WORLD.half ELSE 0,
   constrained |-> constrained, eyeHeight |-> 2100, keyDown |-> {},
   locked |-> FALSE, requesting |-> FALSE, exiting |-> FALSE,
   camera |-> pos, moved |-> 0]

\* the camera where resetCamera puts it, at the origin, and near a corner of
\* the world
CameraStarts ==
  {[x |-> 96 * FP, y |-> 64 * FP, z |-> 116 * FP], [x |-> 0, y |-> 64 * FP, z |-> 0],
   [x |-> 333 * FP, y |-> 64 * FP, z |-> -333 * FP]}

InitFp ==
  /\ RngInit(W(0, 0), W(0, 0))
  /\ GenInit(NoGen, "idle", NoGen, "idle")
  /\ appPc = "idle" /\ sim = <<>> /\ seasonState = <<>> /\ uSnow = 0
  /\ randSim = NotAFunction /\ terrain = <<>> /\ pondGroup = <<>>
  /\ frames = 0 /\ events = 0 /\ levelWrites = 0
  /\ session = Absent /\ resolved = <<>> /\ local = Absent /\ loaded = Absent
  /\ saved = Absent /\ dom = <<>>
  /\ clouds = <<>> /\ frameCapAccum = 0 /\ fps = <<>> /\ starField = <<>>
  /\ \E pos \in CameraStarts, constrained \in BOOLEAN :
       firstPerson = FpInit(pos, constrained)

NextFp ==
  \/ \E next \in BOOLEAN : setEnabled(next)
  \/ \E button \in {0, 2} : onPointerDown(button)
  \/ lockGranted
  \/ lockLost
  \/ \E key \in Keys, ignored \in BOOLEAN : onKeyDown(key, ignored)
  \/ \E key \in Keys : onKeyUp(key)
  \/ \E mx \in {0, 714}, my \in {-700, 0, 700} : onMouseMove(mx, my)
  \/ \E e \in CameraEulers : syncRotationFromCamera(e)
  \/ fpUpdate(FrameCap)

SpecFp == InitFp /\ [][NextFp]_vars

\* ---------------------------------------------------------------------------
\* The cloud pool (app.js lines 4164-4310, 5486-5493, 5544-5557, 6010-6022):
\* clouds.userData with its list of cloud definitions and its list of
\* materials.  A material is the identity of a ShaderMaterial object; a cloud
\* definition keeps its material and the stream that placed it.
\* ---------------------------------------------------------------------------

maxClouds == 8
initialCloudCount == 5

\* QUALITY_PRESETS[name].cloudCount (lines 5408-5482)
QUALITY_PRESETS == [low |-> 4, medium |-> 5, high |-> 6, ultra |-> 7]
presetOf(name) ==
  IF name \in DOMAIN QUALITY_PRESETS THEN QUALITY_PRESETS[name] ELSE QUALITY_PRESETS.high

\* new THREE.ShaderMaterial: an object no list holds yet
newMaterial(C) ==
  CHOOSE m \in 1..(Len(C.materials) + 1) : \A i \in 1..Len(C.materials) : C.materials[i] # m

\* spawnCloud(rng) (lines 4175-4259)
spawnCloud(C, rng) ==
  [C EXCEPT !.materials = Append(@, newMaterial(C)),
            !.cloudDefs = Append(@, [mat |-> newMaterial(C), rng |-> rng])]

\* Array.prototype.indexOf, 0 for -1; splice(idx, 1)
indexOf(list, x) ==
  IF \E i \in 1..Len(list) : list[i] = x
  THEN CHOOSE i \in 1..Len(list) : list[i] = x /\ \A j \in 1..(i - 1) : list[j] # x
  ELSE 0
splice(list, idx) ==
  IF idx = 0 THEN list ELSE SubSeq(list, 1, idx - 1) \o SubSeq(list, idx + 1, Len(list))

\* despawnCloud(cloudDef) (lines 4285-4297)
despawnCloudKeepsMaterial(C, cloudDef) ==
  [C EXCEPT !.cloudDefs = splice(@, indexOf(@, cloudDef))]
despawnCloud(C, cloudDef) ==
  [C EXCEPT !.cloudDefs = splice(@, indexOf(@, cloudDef)),
            !.materials = splice(@, indexOf(@, cloudDef.mat))]

\* the two loops of setCloudCount (lines 5491-5492)
RECURSIVE spawnUpTo(_, _)
spawnUpTo(C, clamped) ==
  IF Len(C.cloudDefs) < clamped THEN spawnUpTo(spawnCloud(C, "randSim"), clamped) ELSE C
RECURSIVE despawnDownTo(_, _)
despawnDownTo(C, clamped) ==
  IF Len(C.cloudDefs) > clamped
  THEN despawnDownTo(despawnCloud(C, C.cloudDefs[Len(C.cloudDefs)]), clamped)
  ELSE C

\* setCloudCount(targetCount) (lines 5486-5493), targetCount in thousandths;
\* the record keeps the argument of the last call
setCloudCount(C, targetCount) ==
  despawnDownTo(spawnUpTo([C EXCEPT !.targetCount = targetCount, !.called = TRUE],
                          clamp(targetCount \div FP, 0, maxClouds)),
                clamp(targetCount \div FP, 0, maxClouds))

\* applyQualityPreset(name) (lines 5544-5557)
qualityPresetApplied(C, name) ==
  setCloudCount([C EXCEPT !.qualityApplied = IF name \in DOMAIN QUALITY_PRESETS THEN name
                                             ELSE "high",
                          !.cloudsEnabled = presetOf(name) > 0],
                presetOf(name) * FP)

\* Math.ceil(sim.precip * k), precip and k in thousandths
extraClouds(precip, w) ==
  IF precip > 50 /\ w \in {"rain", "thunderstorm", "snow", "blizzard", "fog"}
  THEN -((-(precip * (IF w = "thunderstorm" THEN 4000 ELSE IF w = "blizzard" THEN 3500 ELSE 3000)))
         \div (FP * FP))
  ELSE 0

\* the dynamic cloud count of updateWeather (lines 6010-6022)
dynamicCountOf(C, precip, w) ==
  clamp(presetOf(C.qualityApplied) + extraClouds(precip, w), 0, maxClouds)
cloudCountAfter(C, precip, w) ==
  IF C.dynamicCount # dynamicCountOf(C, precip, w)
  THEN setCloudCount([C EXCEPT !.dynamicCount = dynamicCountOf(C, precip, w)],
                     dynamicCountOf(C, precip, w) * FP)
  ELSE C

\* createClouds (lines 4164-4310): five clouds placed by randWorld; then the
\* preset of the start (line 5644)
RECURSIVE spawnInitial(_, _)
spawnInitial(C, n) == IF n = 0 THEN C ELSE spawnInitial(spawnCloud(C, "randWorld"), n - 1)
createClouds ==
  spawnInitial([cloudDefs |-> <<>>, materials |-> <<>>, dynamicCount |-> -1,
                qualityApplied |-> "high", cloudsEnabled |-> TRUE,
                targetCount |-> 0, called |-> FALSE], initialCloudCount)
CloudsInit(qualityMode) ==
  qualityPresetApplied(createClouds, IF qualityMode = "auto" THEN "high" ELSE qualityMode)

cloudRest == <<rngVars, genVars, appVars, session, resolved, local, loaded, saved, dom,
               firstPerson, frameCapAccum, fps, starField>>

\* the quality select, and updateAutoQuality choosing another preset
applyQualityPreset(name) ==
  /\ clouds' = qualityPresetApplied(clouds, name)
  /\ UNCHANGED cloudRest

\* updateWeather sizing the pool for the weather and precipitation of the frame
updateWeatherClouds(precip, w) ==
  /\ clouds' = cloudCountAfter(clouds, precip, w)
  /\ UNCHANGED cloudRest

\* setCloudCount called with any finite number
setCloudCountCall(targetCount) ==
  /\ clouds' = setCloudCount(clouds, targetCount)
  /\ UNCHANGED cloudRest

QualityModes == {"auto", "low", "medium", "high", "ultra", "cinematic"}
CloudTargets == {-1 * FP, 0, 2500, 12 * FP}

InitClouds ==
  /\ RngInit(W(0, 0), W(0, 0))
  /\ GenInit(NoGen, "idle", NoGen, "idle")
  /\ appPc = "idle" /\ sim = <<>> /\ seasonState = <<>> /\ uSnow = 0
  /\ randSim = NotAFunction /\ terrain = <<>> /\ pondGroup = <<>>
  /\ frames = 0 /\ events = 0 /\ levelWrites = 0
  /\ session = Absent /\ resolved = <<>> /\ local = Absent /\ loaded = Absent
  /\ saved = Absent /\ dom = <<>>
  /\ firstPerson = <<>> /\ frameCapAccum = 0 /\ fps = <<>> /\ starField = <<>>
  /\ \E qualityMode \in QualityModes : clouds = CloudsInit(qualityMode)

NextClouds ==
  \/ \E name \in QualityModes \ {"auto"} : applyQualityPreset(name)
  \/ \E precip \in {0, 50, 340, 650, FP},
        w \in {"clear", "rain", "thunderstorm", "snow", "blizzard", "fog", "windy"} :
       updateWeatherClouds(precip, w)
  \/ \E targetCount \in CloudTargets : setCloudCountCall(targetCount)

SpecClouds == InitClouds /\ [][NextClouds]_vars

\* ---------------------------------------------------------------------------
\* The frame limiter at the head of tick (app.js lines 6189-6240).  Its times
\* are counted in 1/60000 s, which makes FRAME_DT = 1/60 s, FRAME_EPS = 1e-4 s,
\* 0.25 s and 0.05 s whole numbers.
\* ---------------------------------------------------------------------------

Second == 60000
FPS_CAP == 60
FRAME_DT == Second \div FPS_CAP
FRAME_EPS == Second \div 10000
MaxDelta == Second \div 4
MaxStep == Second \div 20

\* clock.getDelta(): a finite number of time units, or NaN / Infinity
Delta(v) == [finite |-> TRUE, v |-> v]
NonFinite == [finite |-> FALSE, v |-> 0]

\* line 6208: !Number.isFinite(deltaRaw) || deltaRaw <= 0 || deltaRaw > 0.25
deltaRejected(deltaRaw) == ~deltaRaw.finite \/ deltaRaw.v <= 0 \/ deltaRaw.v > MaxDelta

\* lines 6217-6218: the accumulator of a frame shorter than FRAME_DT, and
\* whether such a frame returns without an update
accumOf(acc, deltaRaw) == Min(acc + deltaRaw.v, MaxDelta)
frameHeld(acc, deltaRaw) ==
  deltaRaw.v < FRAME_DT /\ accumOf(acc, deltaRaw) + FRAME_EPS < FRAME_DT

\* lines 6216-6224: frameCapAccum after a frame that is not rejected
frameCapAccumAfter(acc, deltaRaw) ==
  IF deltaRaw.v < FRAME_DT
  THEN IF frameHeld(acc, deltaRaw) THEN accumOf(acc, deltaRaw)
       ELSE Max(0, accumOf(acc, deltaRaw) - FRAME_DT)
  ELSE 0

\* lines 6215-6226: the step dt of a frame that updates
stepOfUnclamped(deltaRaw) == IF deltaRaw.v < FRAME_DT THEN FRAME_DT ELSE deltaRaw.v
stepOf(deltaRaw) == Min(IF deltaRaw.v < FRAME_DT THEN FRAME_DT ELSE deltaRaw.v, MaxStep)

\* lines 6228-6240: the frame counters of the FPS display
fpsAfter(F, dt) ==
  IF F.fpsUiTimer + dt >= MaxDelta /\ F.fpsAccum + dt > 0
  THEN [fpsFrames |-> 0, fpsAccum |-> 0, fpsUiTimer |-> 0, dt |-> dt, updated |-> TRUE]
  ELSE [fpsFrames |-> F.fpsFrames + 1, fpsAccum |-> F.fpsAccum + dt,
        fpsUiTimer |-> F.fpsUiTimer + dt, dt |-> dt, updated |-> TRUE]

\* the head of tick for one frame: fps.updated says whether the frame went on
\* to the simulation update and fps.dt with which step
frameTick(deltaRaw) ==
  /\ IF deltaRejected(deltaRaw)
     THEN /\ fps' = [fpsFrames |-> 0, fpsAccum |-> 0, fpsUiTimer |-> 0, dt |-> 0,
                     updated |-> FALSE]
          /\ frameCapAccum' = 0
     ELSE /\ frameCapAccum' = frameCapAccumAfter(frameCapAccum, deltaRaw)
          /\ fps' = IF frameHeld(frameCapAccum, deltaRaw)
                    THEN [fps EXCEPT !.dt = 0, !.updated = FALSE]
                    ELSE fpsAfter(fps, stepOf(deltaRaw))
  /\ UNCHANGED <<rngVars, genVars, appVars, session, resolved, local, loaded, saved, dom,
                 firstPerson, clouds, starField>>

\* the raw deltas of the frames: none, zero, negative, a 240 Hz, 144 Hz,
\* 61 Hz, 60 Hz and 30 Hz frame, a slow frame, the longest accepted one and
\* one past it
Deltas ==
  {NonFinite, Delta(0), Delta(-FRAME_DT), Delta(250), Delta(417), Delta(984),
   Delta(FRAME_DT), Delta(2 * FRAME_DT), Delta(MaxStep + 500), Delta(MaxDelta),
   Delta(MaxDelta + 1)}

InitFrame ==
  /\ RngInit(W(0, 0), W(0, 0))
  /\ GenInit(NoGen, "idle", NoGen, "idle")
  /\ appPc = "idle" /\ sim = <<>> /\ seasonState = <<>> /\ uSnow = 0
  /\ randSim = NotAFunction /\ terrain = <<>> /\ pondGroup = <<>>
  /\ frames = 0 /\ events = 0 /\ levelWrites = 0
  /\ session = Absent /\ resolved = <<>> /\ local = Absent /\ loaded = Absent
  /\ saved = Absent /\ dom = <<>>
  /\ firstPerson = <<>> /\ clouds = <<>> /\ starField = <<>>
  /\ frameCapAccum = 0
  /\ fps = [fpsFrames |-> 0, fpsAccum |-> 0, fpsUiTimer |-> 0, dt |-> 0, updated |-> FALSE]

NextFrame == \E deltaRaw \in Deltas : frameTick(deltaRaw)

SpecFrame == InitFrame /\ [][NextFrame]_vars

\* ---------------------------------------------------------------------------
\* The shooting stars of the star field (app.js lines 275-286, 350-357,
\* 640-727, 6386-6391).  createStarField keeps const rand = randWorld; the
\* app's randWorld is the layout stream of generator 1.
\* ---------------------------------------------------------------------------

shootingStarMax == 2

\* the rand() calls of spawnShootingStar: two randomUnitVec3 of two calls
\* each, then angle, dur and tail
spawnDraws == 2 + 2 + 3

\* randSim() < spawnP with spawnP = dt * 0.018 (line 682), dt in thousandths
\* of a second and the value of randSim() as x / 2^32:
\* x * 10^6 < dt * 18 * 2^32, both sides divided by 2^22
spawnRolled(s, dt) ==
  mulberry32Out(s.t).hi * 15625 + (mulberry32Out(s.t).lo * 15625) \div H16 < dt * 18 * 1024

\* spawnShootingStar() (lines 640-678): the list after it; dur is the sixth
\* value drawn from rand
spawnShootingStar(shooting, rand) ==
  IF Len(shooting) >= shootingStarMax THEN shooting
  ELSE Append(shooting, [t |-> 0, dur |-> lerp(550, 1050, Draws(rand, spawnDraws)[6])])

\* the loop of updateShootingStars (lines 684-709)
RECURSIVE agedStars(_, _)
agedStars(shooting, dt) ==
  IF shooting = <<>> THEN <<>>
  ELSE IF Head(shooting).t + dt >= Head(shooting).dur THEN agedStars(Tail(shooting), dt)
  ELSE <<[Head(shooting) EXCEPT !.t = @ + dt]>> \o agedStars(Tail(shooting), dt)

\* starField.userData.update(dt, fade) of a frame in which the star field is
\* visible (lines 6387-6391, 725-727, 680-709)
updateShootingStars(dt, fade) ==
  /\ appPc = "running"
  /\ frames < MaxFrames
  /\ frames' = frames + 1
  /\ randSim' = IF fade > 600 THEN Skip(randSim, 1) ELSE randSim
  /\ IF fade > 600 /\ spawnRolled(randSim, dt)
     THEN /\ starField' =
               [shooting |-> agedStars(spawnShootingStar(starField.shooting, randWorld[1]), dt)]
          /\ randWorld' = IF Len(starField.shooting) >= shootingStarMax THEN randWorld
                          ELSE [randWorld EXCEPT ![1] = Skip(@, spawnDraws)]
     ELSE /\ starField' = [shooting |-> agedStars(starField.shooting, dt)]
          /\ randWorld' = randWorld
  /\ UNCHANGED <<rngVars, args, pc, ecoRng, loc, draws, RIVER_PROFILE, BIOME, TERRAIN_PROFILE,
                 ECO, heightOut, ecoOut, queries, appPc, sim, seasonState, uSnow, terrain,
                 pondGroup, events, levelWrites, session, resolved, local, loaded, saved, dom,
                 firstPerson, clouds, frameCapAccum, fps>>

\* states of randSim some way into a run, three of them about to return a
\* value below 0.0009, and the shooting stars in the sky
StarStreams == {Mulberry(W(0, s)) : s \in {1216, 1739, 1876, 12345}}
StarSkies ==
  {<<>>, <<[t |-> 100, dur |-> 800]>>, <<[t |-> 900, dur |-> 1000], [t |-> 0, dur |-> 600]>>}
StarFades == {0, 600, 900, FP}

InitStars ==
  /\ RngInit(W(0, 0), W(0, 0))
  /\ \E ws \in WeatherSeeds :
       GenInit([a |-> NoGen.a, rw |-> appRandWorld(ws)], "idle", NoGen, "idle")
  /\ appPc = "running" /\ sim = <<>> /\ seasonState = <<>> /\ uSnow = 0
  /\ terrain = <<>> /\ pondGroup = <<>>
  /\ frames = 0 /\ events = 0 /\ levelWrites = 0
  /\ session = Absent /\ resolved = <<>> /\ local = Absent /\ loaded = Absent
  /\ saved = Absent /\ dom = <<>>
  /\ firstPerson = <<>> /\ clouds = <<>> /\ frameCapAccum = 0 /\ fps = <<>>
  /\ \E s \in StarStreams : randSim = s
  /\ \E sky \in StarSkies : starField = [shooting |-> sky]

NextStars == \E dt \in FrameSteps, fade \in StarFades : updateShootingStars(dt, fade)

SpecStars == InitStars /\ [][NextStars]_vars

\* ------------------------------------------------------------------------
\* Properties
\* ------------------------------------------------------------------------

\* points over the placement area, 70 apart, so that every volcano, pond and
\* island has one within its radius, and the query points
DetPoints ==
  {<<x, z>> : x \in {-140, -70, 0, 70, 140}, z \in {-140, -70, 0, 70, 140}} \cup QueryPoints

\* C1: two generators constructed with the same seed, the same biome mode and
\* a layout stream freshly created from that seed return the same
\* terrainHeight(x, z) at every point and the same ecology sample for every
\* (x, z, y, normalY)
C1_Determinism ==
  (pc[1] = "done" /\ pc[2] = "done" /\ args[1] = args[2]) =>
    \A p \in DetPoints :
      /\ terrainHeight(worldOf(1), p[1] * FP, p[2] * FP)
           = terrainHeight(worldOf(2), p[1] * FP, p[2] * FP)
      /\ \A s \in QuerySurfaces :
           sampleTo(worldOf(1), p[1] * FP, p[2] * FP, s[1], s[2])
             = sampleTo(worldOf(2), p[1] * FP, p[2] * FP, s[1], s[2])

\* both calls have returned a mainland generator for the same arguments
C1_Witness ==
  /\ pc[1] = "done" /\ pc[2] = "done" /\ args[1] = args[2]
  /\ BIOME[1].kind = "mainland" /\ BIOME[2].kind = "mainland"
  /\ draws[1] > 0 /\ draws[2] > 0

\* C2: two closures of mulberry32 whose seeds are equal modulo 2^32 return
\* the same value on their n-th call, for every n; a closure created anew
\* starts again from the first value
C2_SameSeedSameSequence ==
  \A a \in Closures, b \in Closures :
    ToUint32(rngSeed[a]) = ToUint32(rngSeed[b]) =>
      \A n \in 1..Min(Len(rngOuts[a]), Len(rngOuts[b])) : rngOuts[a][n] = rngOuts[b][n]

\* two closures with different seeds, equal modulo 2^32, both called to the end
C2_Witness ==
  /\ rngSeed[1] # rngSeed[2]
  /\ ToUint32(rngSeed[1]) = ToUint32(rngSeed[2])
  /\ Len(rngOuts[1]) = MaxCalls /\ Len(rngOuts[2]) = MaxCalls

\* C3: every value a mulberry32 closure returns is at least 0 and less than 1:
\* the word it is derived from lies in 0..2^32-1 and is divided by 2^32
C3_UnitInterval ==
  \A c \in Closures : \A n \in 1..Len(rngOuts[c]) :
    /\ rngOuts[c][n].hi \in 0..(H16 - 1)
    /\ rngOuts[c][n].lo \in 0..(H16 - 1)
    /\ Frac(rngOuts[c][n]) \in 0..(FP - 1)

\* a closure seeded with -1 has returned a word with its top bit set
C3_Witness ==
  \E c \in Closures :
    /\ rngSeed[c] = W(-1, 65535)
    /\ \E n \in 1..Len(rngOuts[c]) : rngOuts[c][n].hi >= 32768

\* C4: in every generated mainland profile every two distinct ponds of the
\* pond list, the spring pond included, are at least (a.r + b.r) * 1.25 apart
C4_PondsApart ==
  \A g \in Gens :
    BIOME[g].kind = "mainland" =>
      \A i \in 1..Len(BIOME[g].ponds), j \in 1..Len(BIOME[g].ponds) :
        i # j =>
          hypot(BIOME[g].ponds[i].x - BIOME[g].ponds[j].x,
                BIOME[g].ponds[i].z - BIOME[g].ponds[j].z)
            >= MulFP(BIOME[g].ponds[i].r + BIOME[g].ponds[j].r, 1250)

\* the point a height query was made at lies at least the half-extent from
\* the origin
AtEdge(q) == q.kind = "height" /\ hypot(q.x, q.z) >= WORLD.half

\* C5 as stated: at every point at least 340 from the origin terrainHeight
\* is the void height -9.0, in both biome modes
C5_EdgeVoidEverywhere ==
  \A g \in Gens : AtEdge(heightOut[g]) => heightOut[g].h = -9000

\* C5 as amended: at every point at least 340 from the origin
\* terrainHeightRaw is -9.0 in both modes, and terrainHeight is -9.0 in
\* island mode and, in mainland mode, at the points not closer than the river
\* bank width to the river centreline; closer to it terrainHeight is lower
C5_EdgeVoidOffRiver ==
  \A g \in Gens :
    AtEdge(heightOut[g]) =>
      /\ heightOut[g].raw = -9000
      /\ heightOut[g].h <= -9000
      /\ (\/ BIOME[g].kind = "miniIslands"
          \/ Abs(heightOut[g].x - riverCenterX(RIVER_PROFILE[g], noiseSeed(args[g].worldSeed),
                                               heightOut[g].z)) >= WORLD.riverBankWidth)
           => heightOut[g].h = -9000

\* a mainland generator was asked at an edge point away from the river
C5_Witness ==
  /\ AtEdge(heightOut[1])
  /\ BIOME[1].kind = "mainland"
  /\ Abs(heightOut[1].x - riverCenterX(RIVER_PROFILE[1], noiseSeed(args[1].worldSeed),
                                       heightOut[1].z)) >= WORLD.riverBankWidth
  /\ heightOut[1].h = -9000

\* C6: each of the ten fields ECO.sampleTo writes lies in [0, 1], and
\* riparian is 0 in island mode
C6_SampleRanges ==
  \A g \in Gens :
    ecoOut[g].kind = "eco" =>
      /\ \A f \in {"temp", "moist", "geo", "dry", "wetland", "alpine", "volcanic", "clay",
                   "riparian", "scree"} : ecoOut[g].out[f] \in 0..FP
      /\ BIOME[g].kind = "miniIslands" => ecoOut[g].out.riparian = 0

\* an island generator wrote a sample with values strictly inside the range
C6_Witness ==
  /\ ecoOut[1].kind = "eco"
  /\ BIOME[1].kind = "miniIslands"
  /\ ecoOut[1].out.moist \in 1..(FP - 1)
  /\ ecoOut[1].out.temp \in 1..(FP - 1)

\* the islands of generator g: the list under construction, then the profile's
islandsOf(g) ==
  IF pc[g] = "islands" THEN loc[g].islands
  ELSE IF BIOME[g].kind = "miniIslands" THEN BIOME[g].islands ELSE <<>>

\* C7: in island mode every island descriptor has its radius in [10, 26] and
\* its height in [3.8, 14.5], whatever the rng returns
C7_IslandRanges ==
  \A g \in Gens : \A i \in 1..Len(islandsOf(g)) :
    /\ islandsOf(g)[i].r \in (10 * FP)..(26 * FP)
    /\ islandsOf(g)[i].height \in 3800..14500

\* a returned island profile with at least 18 islands
C7_Witness ==
  /\ pc[1] = "done"
  /\ BIOME[1].kind = "miniIslands"
  /\ Len(BIOME[1].islands) >= 18

\* z values along the river, 10 apart from one world edge to the other
RiverZs == {10 * k * FP : k \in -34..34}

\* C8: for every generated river profile and every z, |riverCenterX(z)| is at
\* most amp1 + amp2 + wobbleAmp, which is at most 28 + 19.6 + 7
C8_RiverBounded ==
  \A g \in Gens :
    RIVER_PROFILE[g] # Unset =>
      /\ RIVER_PROFILE[g].amp1 <= 28 * FP
      /\ RIVER_PROFILE[g].amp2 <= 19600
      /\ RIVER_PROFILE[g].wobbleAmp <= 7 * FP
      /\ \A z \in RiverZs :
           Abs(riverCenterX(RIVER_PROFILE[g], noiseSeed(args[g].worldSeed), z))
             <= RIVER_PROFILE[g].amp1 + RIVER_PROFILE[g].amp2 + RIVER_PROFILE[g].wobbleAmp

\* a river profile whose centreline leaves the axis by more than amp1 somewhere
C8_Witness ==
  /\ RIVER_PROFILE[1] # Unset
  /\ \E z \in RiverZs :
       Abs(riverCenterX(RIVER_PROFILE[1], noiseSeed(args[1].worldSeed), z))
         > RIVER_PROFILE[1].amp1

\* the position (x, z) lies in the square of half-width k / 100 of the
\* half-extent
InBox(p, k) == Abs(p.x) <= Q(WORLD.half, k, 100) /\ Abs(p.z) <= Q(WORLD.half, k, 100)

\* C9: for a finite seed and an rng that is a function with values in [0, 1)
\* createWorldGen never throws, in any biome mode, and what it returns has a
\* peak, a volcano and a ruins position inside their search areas even when
\* every candidate was rejected
C9_NeverThrows ==
  \A g \in Gens :
    (args[g].seedFinite /\ randWorld[g].kind # "undefined") =>
      /\ pc[g] # "threw"
      /\ pc[g] = "done" =>
           /\ BIOME[g] # Unset /\ TERRAIN_PROFILE[g] # Unset /\ ECO[g] # Unset
           /\ BIOME[g].kind = "mainland" => InBox(TERRAIN_PROFILE[g].peak, 55)
           /\ InBox(ECO[g].volcano, 50)
           /\ InBox(ECO[g].ruins, 55)

\* an island generator was returned although every island candidate was
\* rejected, and a mainland one although every peak candidate was
C9_Witness ==
  /\ pc[1] = "done"
  /\ draws[1] > 10000
  /\ BIOME[1].kind = "miniIslands"
  /\ Len(BIOME[1].islands) = 0

\* C10: every rejection-sampling loop of the generation is capped (5000
\* island, 650 pond, 80 peak, 160 volcano and 220 ruins attempts), so that a
\* createWorldGen call makes a bounded number of rng calls whatever the rng
\* returns
C10_LoopsCapped ==
  \A g \in Gens :
    /\ pc[g] = "islands" => loc[g].tries <= 5000
    /\ pc[g] = "ponds" => loc[g].tries <= 650
    /\ pc[g] = "peak" => loc[g].i <= 80
    /\ pc[g] = "volcano" => loc[g].i <= 160
    /\ pc[g] = "ruins" => loc[g].i <= 220
    /\ draws[g] <= 7 + 2 + 5000 * 6 + (160 * 2 + 3) + (220 * 2 + 3)

\* a pond search that used all of its 650 attempts
C10_Witness ==
  /\ pc[1] = "ponds"
  /\ loc[1].tries = 650
  /\ Len(loc[1].ponds) < loc[1].pondCount

\* the fields of the two variants of a biome profile (lines 271-283 and 340)
IslandFields == {"seaLevel", "islands"}

MainlandFields ==
  {"coastDir", "shorePos", "shoreWidth", "coastDrop", "coastWaterLevel", "ponds",
   "springIndex", "fall"}

\* the kind the requested mode asks for
KindOfMode(a) ==
  IF a.modeType = "string" /\ a.biomeMode = "miniIslands" THEN "miniIslands" ELSE "mainland"

\* BIOME.kind is the kind the requested mode asks for
KindFollowsMode == BIOME[1] # Unset => BIOME[1].kind = KindOfMode(args[1])

\* an island world whose coast, spring and waterfall fields hold other values
OtherCoast(G) ==
  [G EXCEPT !.BIOME =
     [@ EXCEPT !.coastDir = [x |-> 0, y |-> FP], !.shorePos = 50 * FP,
               !.shoreWidth = 30 * FP, !.coastDrop = 12 * FP,
               !.coastWaterLevel = -2000, !.springIndex = 0,
               !.fall = <<[x0 |-> 20 * FP, z0 |-> 0, x1 |-> 0, z1 |-> 0,
                           width |-> 2 * FP, depth |-> 2 * FP, drop |-> 10 * FP]>>]]

\* in an island world the coast fields do not reach a query's result, and the
\* pond list that distanceToWater walks is empty
MainlandFieldsInert ==
  (BIOME[1] # Unset /\ BIOME[1].kind = "miniIslands") =>
    /\ BIOME[1].ponds = <<>>
    /\ heightOut[1].kind = "height" =>
         heightOut[1].h = terrainHeight(OtherCoast(worldOf(1)), heightOut[1].x, heightOut[1].z)
    /\ ecoOut[1].kind = "eco" =>
         ecoOut[1].out = sampleTo(OtherCoast(worldOf(1)), ecoOut[1].x, ecoOut[1].z,
                                  ecoOut[1].y, ecoOut[1].normalY)

\* once the profile exists its kind stays what it is
KindStays == BIOME[1] # Unset => BIOME'[1].kind = BIOME[1].kind

\* C11 as stated: BIOME.kind is "miniIslands" exactly for the mode "miniIslands" and
\* "mainland" otherwise, it never changes, and the fields of the inactive variant
\* are present in the profile (in both modes) without influencing terrainHeight or
\* the ecology sample.
C11_OneVariantAllFields ==
  /\ [](/\ KindFollowsMode
        /\ BIOME[1] # Unset => (IslandFields \cup MainlandFields) \subseteq DOMAIN BIOME[1]
        /\ MainlandFieldsInert)
  /\ [][KindStays]_vars

\* C11 amended: the kind follows the mode and never changes; an island profile
\* carries the mainland fields as dummies that reach no query result; a mainland
\* profile carries the mainland fields only (no seaLevel, no islands).
C11_OneVariantActive ==
  /\ [](/\ KindFollowsMode
        /\ (BIOME[1] # Unset /\ BIOME[1].kind = "miniIslands") =>
             DOMAIN BIOME[1] = {"kind"} \cup IslandFields \cup MainlandFields
        /\ (BIOME[1] # Unset /\ BIOME[1].kind = "mainland") =>
             DOMAIN BIOME[1] = {"kind"} \cup MainlandFields
        /\ MainlandFieldsInert)
  /\ [][KindStays]_vars

\* an island world, built for the mode "miniIslands", answers an ecology query
C11_Witness ==
  /\ pc[1] = "done"
  /\ BIOME[1].kind = "miniIslands"
  /\ Len(BIOME[1].islands) > 0
  /\ ecoOut[1].kind = "eco"

\* a profile with every pond's water level blanked
ButLevels(B) ==
  IF B = Unset THEN B
  ELSE [B EXCEPT !.ponds = [i \in 1..Len(B.ponds) |-> [B.ponds[i] EXCEPT !.level = 0]]]

\* the terrain mesh without its snow: every vertex at baseY
bareTerrain(T) ==
  [T EXCEPT !.grid = [i \in DOMAIN T.grid |->
                        [k \in 1..17 |-> [T.grid[i][k] EXCEPT !.y = T.grid[i][k].baseY]]]]

\* C12: once createWorldGen has returned, no step (a height query, an ecology
\* query, a frame tick, a pond update, a UI event) changes TERRAIN_PROFILE or
\* any field of BIOME other than a pond's water level.
C12_ProfilesReadOnly ==
  [][pc[1] = "done" => /\ TERRAIN_PROFILE'[1] = TERRAIN_PROFILE[1]
                       /\ ButLevels(BIOME'[1]) = ButLevels(BIOME[1])]_vars

\* C12 witness: the app has run frames, a callback has run, and a pond pass of
\* a frame has rewritten a water level to a value the snow-free terrain does
\* not give.
C12_Witness ==
  /\ appPc = "running"
  /\ frames > 0
  /\ events > 0
  /\ levelWrites >= 3
  /\ BIOME[1] # computePondWaterLevelsOf(BIOME[1], bareTerrain(terrain))


\* the value a first call with the recorded arguments returns
FreshHeight(g) == terrainHeight(worldOf(g), heightOut[g].x, heightOut[g].z)
FreshSample(g) ==
  sampleWith(worldOf(g), ecoOut[g].x, ecoOut[g].z, ecoOut[g].y, ecoOut[g].normalY,
             moisture01(worldOf(g), ecoOut[g].x, ecoOut[g].z, ecoOut[g].y),
             waterProximity01(worldOf(g), ecoOut[g].x, ecoOut[g].z))

\* a step that is a query of generator 1
QueryStep == queries'[1] # queries[1]

\* C13: a height or ecology query returns the value a first call with the
\* same arguments returns, whatever queries came before it; a query advances
\* neither the layout stream nor the ecology stream nor the runtime stream,
\* and changes nothing but the caller's output record.
C13_QueriesShareNothing ==
  /\ [](/\ heightOut[1].kind = "height" => heightOut[1].h = FreshHeight(1)
        /\ ecoOut[1].kind = "eco" => ecoOut[1].out = FreshSample(1))
  /\ [][QueryStep =>
          /\ randWorld' = randWorld /\ ecoRng' = ecoRng /\ randSim' = randSim
          /\ UNCHANGED <<pageVars, rngVars, args, pc, loc, draws, RIVER_PROFILE, BIOME,
                         TERRAIN_PROFILE, ECO, appRest>>
          /\ heightOut' = heightOut \/ ecoOut' = ecoOut]_vars

\* C13 witness: a height query and an ecology query have both been made on
\* one generator whose layout stream was drawn from.
C13_Witness ==
  /\ queries[1] = 2
  /\ heightOut[1].kind = "height"
  /\ ecoOut[1].kind = "eco"
  /\ draws[1] > 0


\* the value the next call of closure c returns
NextValue(c) == mulberry32Out(rngT[closureOf(c)])

\* C14: randWorld and randSim are seeded with different seeds, and a call of
\* one leaves the value the next call of the other returns unchanged.
C14_StreamsApart ==
  /\ [](rngSeed[1] # rngSeed[2])
  /\ [][\A c \in Closures :
          rngOuts'[c] # rngOuts[c] =>
            \A k \in Closures \ {c} :
              mulberry32Out(rngT'[closureOf(k)]) = NextValue(k)]_vars

\* C14 witness: both streams have been drawn from, randWorld twice, and their
\* first values differ.
C14_Witness ==
  /\ Len(rngOuts[1]) >= 2
  /\ Len(rngOuts[2]) >= 1
  /\ rngOuts[1][1] # rngOuts[2][1]


\* an integer in [0, 2^32)
IsUint32(w) == w.hi \in 0..(H16 - 1) /\ w.lo \in 0..(H16 - 1)

\* a string that is present and not blank
NonBlank(v) == v # Absent /\ trim(v) # <<>>

\* the last resolveWorldSeed call
LastResolve == resolved[Len(resolved)]

\* the seeds of the URL parameters "12345", " 42 ", "4294967301", "0x1F" and
\* "0XfffffffF"
KnownSeeds ==
  /\ LastResolve.param = <<"1", "2", "3", "4", "5">> => LastResolve.seed = W(0, 12345)
  /\ LastResolve.param = <<" ", "4", "2", " ">> => LastResolve.seed = W(0, 42)
  /\ LastResolve.param = <<"4", "2", "9", "4", "9", "6", "7", "3", "0", "1">>
       => LastResolve.seed = W(0, 5)
  /\ LastResolve.param = <<"0", "x", "1", "F">> => LastResolve.seed = W(0, 31)
  /\ LastResolve.param = <<"0", "X", "f", "f", "f", "f", "f", "f", "f", "F">>
       => LastResolve.seed = W(65535, 65535)

RECURSIVE LastWrite(_)
LastWrite(j) ==
  IF j <= 1 THEN 0 ELSE IF resolved[j - 1].wrote THEN j - 1 ELSE LastWrite(j - 1)

\* seeds at the ends of the 32-bit range and at the carries of their digits
RoundTripSeeds ==
  {W(0, 0), W(0, 9), W(0, 10), W(0, 65535), W(1, 0), W(15258, 51712), W(32767, 65535),
   W(32768, 0), W(65535, 65535)}

\* parseSeed(String(s)) = s
RoundTrip ==
  /\ \A s \in RoundTripSeeds : parseSeed(StringOf(s)) = s
  /\ \A j \in 1..Len(resolved) : parseSeed(StringOf(resolved[j].seed)) = resolved[j].seed

\* C16 as stated: once a call has returned s and stored it, every later call
\* without a URL seed returns s.
C16_SeedNeverReplaced ==
  \A i \in 1..Len(resolved), j \in 1..Len(resolved) :
    i < j /\ resolved[i].wrote /\ resolved[j].from # "url"
      => resolved[j].seed = resolved[i].seed

\* C16: a call without a URL seed whose storage read does not throw returns
\* the seed that was stored last (s, until a later call stores another: one
\* with a URL seed, or one that drew a fresh seed after a read that threw);
\* parseSeed(String(s)) = s; and a call whose read or write throws still
\* returns a seed.
C16_SeedPersisted ==
  /\ RoundTrip
  /\ \A j \in 1..Len(resolved) :
       /\ IsUint32(resolved[j].seed)
       /\ resolved[j].from # "url" /\ ~resolved[j].getThrew /\ LastWrite(j) > 0
            => resolved[j].seed = resolved[LastWrite(j)].seed
  /\ Len(resolved) > 0 /\ LastWrite(Len(resolved) + 1) > 0
       => session = StringOf(resolved[LastWrite(Len(resolved) + 1)].seed)

\* C16 witness: a call stored a seed, a call with a URL seed stored another,
\* and a third call without a URL seed returned the second from the storage;
\* one of the calls found the write throwing or drew 2^32 - 1.
C16_Witness ==
  /\ Len(resolved) = 3
  /\ resolved[1].wrote
  /\ resolved[2].from = "url" /\ resolved[2].wrote
  /\ resolved[2].seed # resolved[1].seed
  /\ resolved[3].from = "stored"
  /\ resolved[3].seed = resolved[2].seed
  /\ resolved[2].seed.hi >= 32768


\* C17 as stated: a loadSettings call after a saveSettings call returns an
\* object whose nine fields are the sim's values at that save, and a
\* loadSettings call returns null when the item is missing, empty or not JSON
\* for an object.
C17_RoundTripAlways ==
  loaded.called =>
    /\ loaded.after.called =>
         /\ loaded.result.kind = "value" /\ loaded.result.root = "object"
         /\ \A f \in Fields : loaded.result.fields[f] = loaded.after.data[f]
    /\ (loaded.raw.kind # "json" \/ loaded.raw.root # "object") =>
         loaded.result = NullResult

\* the stored text is JSON for an object or an array
HoldsObject(raw) == raw.kind = "json" /\ raw.root \in {"object", "array"}

\* C17 (amended): when neither the setItem of the last saveSettings call nor
\* the getItem of a later loadSettings call threw, that loadSettings call
\* returned an object whose nine persisted fields equal the sim's values at
\* that save; loadSettings returns null when nothing is stored, when the
\* stored text is not JSON, when it is JSON for neither an object nor an
\* array, and when getItem throws; both functions return when the storage
\* throws; and applySavedSettingsToDom assigns a control only from a saved
\* field of the expected type, as the String of that field.
C17_SettingsPersisted ==
  /\ (loaded.called /\ loaded.after.called /\ ~loaded.after.setThrew /\ ~loaded.getThrew) =>
       /\ loaded.result.kind = "value" /\ loaded.result.root = "object"
       /\ \A f \in Fields : loaded.result.fields[f] = loaded.after.data[f]
  /\ (loaded.called /\ (loaded.getThrew \/ ~HoldsObject(loaded.raw))) =>
       loaded.result = NullResult
  /\ loaded.outcome = "returned" /\ saved.outcome = "returned"
  /\ \A f \in dom.applied :
       /\ dom.from.fields[f].t = ExpectedType(f)
       /\ dom.value[f] = IF f \in NumberFields THEN StringOfNumber(dom.from.fields[f])
                         ELSE dom.from.fields[f]

\* C17 witness: a sim with a changed precipitation was saved, loaded again
\* and applied to the controls
C17_Witness ==
  /\ loaded.called /\ loaded.after.called /\ ~loaded.after.setThrew /\ ~loaded.getThrew
  /\ loaded.after.data.precip = Num(920)
  /\ dom.from = loaded.result /\ "precip" \in dom.applied
  /\ dom.value.precip = StringOfNumber(Num(920))


\* the water levels of the ponds of world 1
pondLevels(B) == IF B = Unset THEN <<>> ELSE [i \in 1..Len(B.ponds) |-> B.ponds[i].level]

\* the first assignment of the water levels comes after the terrain is built
\* and before the pond meshes are created
LevelsInOrder ==
  /\ levelWrites > 0 => terrain # <<>>
  /\ appPc \in {"idle", "createWorldGen", "computePondWaterLevels"} => levelWrites = 0
  /\ appPc = "createPonds" => pondGroup = <<>> /\ levelWrites <= 1
  /\ (pondGroup # <<>> /\ Len(BIOME[1].ponds) > 0) => levelWrites >= 1

\* C18 as stated: the water levels are assigned after the terrain is built
\* and before the pond meshes are created, once, and no later step changes
\* them.
C18_LevelsAssignedOnce ==
  /\ [](LevelsInOrder /\ levelWrites <= 1)
  /\ [][appPc \notin {"idle", "createWorldGen", "computePondWaterLevels"} =>
          pondLevels(BIOME'[1]) = pondLevels(BIOME[1])]_vars

\* C18 (amended): the water levels are first assigned after the terrain is
\* built and before the pond meshes are created; after that a step changes a
\* level only when it is an updatePonds pass that recomputes: the forced pass
\* at start-up, or the pass of a frame whose pond timer has run out or whose
\* snow amount is 0.02 or more away from the amount last applied.
C18_LevelsRecomputedWhenDue ==
  /\ [](LevelsInOrder)
  /\ [][(appPc \notin {"idle", "createWorldGen", "computePondWaterLevels"}
         /\ pondLevels(BIOME'[1]) # pondLevels(BIOME[1])) =>
          /\ levelWrites' = levelWrites + 1
          /\ pondGroup'.pondLevelTimer = 400
          /\ pondGroup'.pondSnowApplied = uSnow'
          /\ \/ appPc = "updatePonds"
             \/ pondGroup.pondLevelTimer <= FrameCap
             \/ Abs(uSnow' - pondGroup.pondSnowApplied) >= 20000]_vars

\* C18 witness: frames have run without a pond pass, then the pass of the
\* frame in which the pond timer ran out wrote the levels a third time (after
\* the first pass and the forced pass), and they now differ from what the
\* snow-free terrain gives.
C18_Witness ==
  /\ appPc = "running"
  /\ frames > 1
  /\ levelWrites = 3
  /\ pondGroup.pondLevelTimer = 400
  /\ pondGroup.pondSnowApplied = uSnow
  /\ pondLevels(BIOME[1]) # pondLevels(computePondWaterLevelsOf(BIOME[1], bareTerrain(terrain)))


\* a step that ran updateWeather: a frame of the running app
Updated == frames' = frames + 1

\* C19: an update in a manual mode leaves the active weather equal to the
\* selected mode; an update in auto mode leaves it equal to the auto target;
\* an update changes the target or restarts the timer only in auto mode when
\* the timer, counted down by the frame's dt, is zero or below, and the new
\* timer is between 28 and 55 seconds; otherwise the target is kept and the
\* timer counts down. Outside updates only resetSim touches the target and the
\* timer: it puts back their first values ("clear" and 0).
C19_WeatherModes ==
  [][/\ Updated =>
          /\ sim'.weatherMode = sim.weatherMode
          /\ sim.weatherMode # "auto" =>
               /\ sim'.activeWeather = sim.weatherMode
               /\ sim'.autoWeatherTarget = sim.autoWeatherTarget
               /\ sim'.autoWeatherTimer = sim.autoWeatherTimer
          /\ sim.weatherMode = "auto" =>
               /\ sim'.activeWeather = sim'.autoWeatherTarget
               /\ sim.autoWeatherTimer - FrameCap > 0 =>
                    /\ sim'.autoWeatherTarget = sim.autoWeatherTarget
                    /\ sim'.autoWeatherTimer = sim.autoWeatherTimer - FrameCap
               /\ sim.autoWeatherTimer - FrameCap <= 0 =>
                    /\ sim'.autoWeatherTarget \in Weathers
                    /\ sim'.autoWeatherTimer >= 28 * FP
                    /\ sim'.autoWeatherTimer <= 55 * FP
     /\ (~Updated /\ <<sim'.autoWeatherTarget, sim'.autoWeatherTimer>>
                       # <<sim.autoWeatherTarget, sim.autoWeatherTimer>>) =>
          /\ sim'.autoWeatherTarget = "clear"
          /\ sim'.autoWeatherTimer = 0]_vars

\* C19 witness: in auto mode the timer ran out, a target was picked with a
\* fresh timer (lerp(28, 55, r): 28 s and r times 27 ms), and two later
\* updates counted that timer down and kept the target
C19_Witness ==
  /\ sim.weatherMode = "auto"
  /\ frames > MaxFrames - WeatherFrames + 2
  /\ sim.autoWeatherTimer + 2 * FrameCap >= 28 * FP
  /\ sim.autoWeatherTimer + 2 * FrameCap <= 55 * FP
  /\ (sim.autoWeatherTimer + 2 * FrameCap - 28 * FP) % 27 = 0
  /\ sim.activeWeather = sim.autoWeatherTarget
  /\ sim.autoWeatherTarget \notin {"rain", "blizzard"}

\* C20: sim.snowCover stays in [0, 1]; an update whose active weather is snow
\* or blizzard does not lower it and an update with any other weather does not
\* raise it; the update leaves uSnow equal to snowCover times the season's
\* snow factor; and that factor is zero outside winter.
C20_SnowCover ==
  /\ [](/\ sim.snowCover >= 0 /\ sim.snowCover <= SnowFP
        /\ seasonState.name # "winter" => seasonState.snowSimFactor = 0)
  /\ [][Updated =>
          /\ snowing(sim'.activeWeather) => sim'.snowCover >= sim.snowCover
          /\ ~snowing(sim'.activeWeather) => sim'.snowCover <= sim.snowCover
          /\ uSnow' = sim'.snowCover * seasonState'.snowSimFactor]_vars

\* C20 witness: in winter, snow has filled the cover up to 1 and uSnow shows it
C20_Witness ==
  /\ frames > MaxFrames - WeatherFrames
  /\ snowing(sim.activeWeather)
  /\ seasonState.name = "winter"
  /\ sim.snowCover = SnowFP
  /\ uSnow = SnowFP

\* C20 witness of melting: with another weather the cover has melted to 0
C20_Melted ==
  /\ frames > MaxFrames - WeatherFrames
  /\ ~snowing(sim.activeWeather)
  /\ sim.snowCover = 0
  /\ sim.cloudiness # 250


\* the fields of sim that a paused simulation holds still
Held(M) ==
  <<M.simTime, M.timeOfDay, M.activeWeather, M.autoWeatherTimer, M.snowCover, M.cloudiness,
    M.groundWetness>>

\* C21: a frame tick of a paused simulation leaves simTime, timeOfDay, the
\* season phase, the active weather, the auto-weather timer, snowCover,
\* cloudiness and groundWetness unchanged; sim.paused changes only in the
\* handler of a UI event; and a frame tick of a simulation that is not paused
\* advances simTime by the frame's dt. (The steps of SpecWeather are frame
\* ticks, which leave events alone, and handlers of UI events.)
C21_PauseHolds ==
  [][/\ (sim.paused /\ events' = events) =>
          /\ Held(sim') = Held(sim)
          /\ seasonState'.phase = seasonState.phase
          /\ sim'.paused
     /\ sim'.paused # sim.paused => events' = events + 1
     /\ (~sim.paused /\ events' = events) =>
          /\ frames' = frames + 1
          /\ sim'.simTime = sim.simTime + FrameCap]_vars

\* C21 witness: a simulation paused at PausedAt was resumed by a click and a
\* later frame advanced it
C21_Witness ==
  /\ ~sim.paused
  /\ events = 1
  /\ sim.simTime > PausedAt
  /\ sim.simTime <= PausedAt + WeatherFrames * FrameCap

\* C21: a running simulation was paused by a click after it ran frames
C21_Paused ==
  /\ sim.paused
  /\ events = 1
  /\ frames > MaxFrames - WeatherFrames
  /\ sim.simTime < PausedAt


\* the distance of the point of the last height query from the river centreline
riverDistance(g) ==
  Abs(heightOut[g].x - riverCenterX(RIVER_PROFILE[g], worldOf(g).seed, heightOut[g].z))

\* C22: terrainHeight(x, z) <= terrainHeightRaw(x, z) at every point asked,
\* with equality in island mode and at every mainland point whose distance
\* from the river centreline is at least riverBankWidth.
C22_RiverNeverRaises ==
  \A g \in Gens :
    heightOut[g].kind = "height" =>
      /\ heightOut[g].h <= heightOut[g].raw
      /\ (BIOME[g].kind = "miniIslands" \/ riverDistance(g) >= WORLD.riverBankWidth) =>
           heightOut[g].h = heightOut[g].raw

\* C22 witness: a mainland point inside the river band was asked and the
\* carved height is below the raw one
C22_Witness ==
  /\ heightOut[1].kind = "height"
  /\ BIOME[1].kind # "miniIslands"
  /\ riverDistance(1) < WORLD.riverBankWidth
  /\ heightOut[1].h < heightOut[1].raw

\* C22: a mainland point outside the river band was asked
C22_Outside ==
  /\ heightOut[1].kind = "height"
  /\ BIOME[1].kind # "miniIslands"
  /\ riverDistance(1) >= WORLD.riverBankWidth
  /\ heightOut[1].h = heightOut[1].raw


\* the exclusion rules of the pond loop (lines 300-303) for pond p of the
\* mainland profile of generator g
Excluded(g, p) ==
  \/ Abs(p.x - riverCenterX(RIVER_PROFILE[g], worldOf(g).seed, p.z))
       < Q(WORLD.riverBankWidth, 9, 10)
  \/ coastCoordOf(BIOME[g], p.x, p.z) > BIOME[g].shorePos + Q(BIOME[g].shoreWidth, 55, 100)

\* a mainland profile has been generated
MainlandDone(g) == pc[g] = "done" /\ BIOME[g] # Unset /\ BIOME[g].kind = "mainland"

\* C23 as stated: every pond of a generated mainland profile satisfies the
\* exclusion rules.
C23_AllPondsPlacedByRules ==
  \A g \in Gens :
    MainlandDone(g) => \A i \in 1..Len(BIOME[g].ponds) : ~Excluded(g, BIOME[g].ponds[i])

\* C23 (amended): every pond of a generated mainland profile other than the
\* spring pond (the last one, at springIndex) satisfies the exclusion rules,
\* and the spring pond is 18 to 34 from the river centreline at its own z.
C23_SampledPondsPlacedByRules ==
  \A g \in Gens :
    MainlandDone(g) =>
      /\ BIOME[g].springIndex = Len(BIOME[g].ponds) - 1
      /\ \A i \in 1..(Len(BIOME[g].ponds) - 1) : ~Excluded(g, BIOME[g].ponds[i])
      /\ \E p \in {BIOME[g].ponds[Len(BIOME[g].ponds)]} :
           \E d \in {Abs(p.x - riverCenterX(RIVER_PROFILE[g], worldOf(g).seed, p.z))} :
             d >= 18 * FP /\ d <= 34 * FP

\* C23 witness: a mainland profile laid out by a mulberry32 stream, with at
\* least two sampled ponds and a spring pond that the rules of the loop would
\* have refused
C23_Witness ==
  /\ MainlandDone(1)
  /\ randWorld[1].kind = "mulberry32"
  /\ Len(BIOME[1].ponds) >= 3
  /\ Excluded(1, BIOME[1].ponds[Len(BIOME[1].ponds)])


\* basinMin and rimMin of pond i as computePondWaterLevels samples them on
\* the terrain mesh T
basinMinOf(T, i) == minY(T.grid[i], 2, 5, T.grid[i][1].y)
rimMinOf(T, i) == minY(T.grid[i], 7, 17, T.grid[i][6].y)

\* the bounds of C24 for pond i of profile B on the terrain mesh T
LevelWithinRim(B, T, i) ==
  /\ B.ponds[i].level <= rimMinOf(T, i) - 100
  /\ rimMinOf(T, i) - 100 > basinMinOf(T, i) + 320 =>
       B.ponds[i].level >= basinMinOf(T, i) + 320
  /\ rimMinOf(T, i) - 100 <= basinMinOf(T, i) + 320 =>
       B.ponds[i].level = rimMinOf(T, i) - 100

\* C24: after every computePondWaterLevels pass each pond has level <= rimMin
\* - 0.10, level >= basinMin + 0.32 when rimMin - 0.10 > basinMin + 0.32, and
\* level = rimMin - 0.10 when those bounds cross (the pass samples the terrain
\* mesh as the step leaves it; the rim minimum of a sampled mesh is finite).
C24_LevelBelowRim ==
  [][levelWrites' # levelWrites =>
       \A i \in 1..Len(BIOME'[1].ponds) : LevelWithinRim(BIOME'[1], terrain', i)]_vars

\* C24 witness: after a pass one pond sits between its two bounds and another
\* has crossed bounds and sits at rimMin - 0.10
C24_Witness ==
  /\ levelWrites > 0
  /\ appPc = "updateSeason"
  /\ \A i \in 1..Len(BIOME[1].ponds) : LevelWithinRim(BIOME[1], terrain, i)
  /\ \E i \in 1..Len(BIOME[1].ponds) :
       rimMinOf(terrain, i) - 100 > basinMinOf(terrain, i) + 320
  /\ \E i \in 1..Len(BIOME[1].ponds) :
       rimMinOf(terrain, i) - 100 <= basinMinOf(terrain, i) + 320


\* C25: in every state in which the canvas does not hold the pointer lock no
\* movement key is in keyDown.
C25_NoKeysWithoutLock ==
  ~firstPerson.locked => firstPerson.keyDown \cap MovementKeys = {}


\* the camera stands inside the world, eyeHeight above the ground or, where
\* the ground is less than 0.15 above the water, above the water
Standing(F) ==
  /\ F.camera.x >= -Q(F.worldHalf, 98, 100) /\ F.camera.x <= Q(F.worldHalf, 98, 100)
  /\ F.camera.z >= -Q(F.worldHalf, 98, 100) /\ F.camera.z <= Q(F.worldHalf, 98, 100)
  /\ F.camera.y = F.eyeHeight +
       (IF GroundAt(F.camera.x, F.camera.z) < WaterAt + 150 THEN WaterAt
        ELSE GroundAt(F.camera.x, F.camera.z))

\* C26 as stated: update changes the camera only when the controller is
\* enabled, pointer-locked, has valid constraints and a movement key is held;
\* after every update made so the camera stands inside the world at
\* eyeHeight; and the pitch is always in [-1.35, 1.35].
C26_CameraAndPitch ==
  /\ [](firstPerson.pitch >= -1350 /\ firstPerson.pitch <= 1350)
  /\ [][/\ firstPerson'.camera # firstPerson.camera =>
             /\ firstPerson.enabled /\ firstPerson.locked
             /\ firstPerson.constrained /\ firstPerson.worldHalf > 0
             /\ firstPerson.keyDown \cap MovementKeys # {}
        /\ (/\ firstPerson'.moved # firstPerson.moved
            /\ firstPerson.keyDown \cap MovementKeys # {}) => Standing(firstPerson')]_vars

\* C26 (amended): update changes the camera only when the controller is
\* enabled, pointer-locked, has valid constraints and the held movement keys
\* do not cancel out; after every such update the camera stands inside the
\* world at eyeHeight; every mouse move the controller handles leaves the
\* pitch in [-1.35, 1.35], and otherwise the pitch changes only to the pitch
\* of the camera that syncRotationFromCamera reads.
C26_CameraStands ==
  [][/\ firstPerson'.camera # firstPerson.camera =>
          /\ firstPerson.enabled /\ firstPerson.locked
          /\ firstPerson.constrained /\ firstPerson.worldHalf > 0
          /\ ~(forwardKey(firstPerson) = 0 /\ strafeKey(firstPerson) = 0)
     /\ firstPerson'.moved # firstPerson.moved => Standing(firstPerson')
     /\ firstPerson'.pitch # firstPerson.pitch =>
          \/ firstPerson'.pitch >= -1350 /\ firstPerson'.pitch <= 1350
          \/ \E e \in CameraEulers :
               firstPerson'.pitch = e.pitch /\ firstPerson'.yaw = e.yaw]_vars

\* C26 witness: the controller took the pitch of a camera looking straight
\* down, and updates have since moved the camera against the edge of the
\* world, where it stands at eyeHeight
C26_Witness ==
  /\ firstPerson.pitch < -1350
  /\ firstPerson.moved > 0
  /\ firstPerson.camera.x = Q(firstPerson.worldHalf, 98, 100)
  /\ Standing(firstPerson)


\* C27: the list of cloud definitions and the list of cloud materials have
\* the same length and matching entries, there are never more than maxClouds
\* clouds, and after setCloudCount(n) there are clamp(floor(n), 0, maxClouds).
C27_CloudPool ==
  /\ Len(clouds.cloudDefs) = Len(clouds.materials)
  /\ \A i \in 1..Len(clouds.cloudDefs) : clouds.cloudDefs[i].mat = clouds.materials[i]
  /\ \A i, j \in 1..Len(clouds.materials) : i # j => clouds.materials[i] # clouds.materials[j]
  /\ Len(clouds.cloudDefs) <= maxClouds
  /\ clouds.called =>
       Len(clouds.cloudDefs) = Max(0, Min(maxClouds, floorTo(clouds.targetCount, FP) \div FP))

\* C27 witness: heavy precipitation filled the pool to maxClouds, after
\* clouds had been removed and spawned again at runtime
C27_Witness ==
  /\ Len(clouds.cloudDefs) = maxClouds /\ clouds.dynamicCount = maxClouds
  /\ clouds.cloudDefs[3].rng = "randSim"
  /\ clouds.targetCount = maxClouds * FP


\* the season after a season in SEASON_ORDER, cyclically
seasonAfter(name) ==
  SEASON_ORDER[((CHOOSE i \in 1..4 : SEASON_ORDER[i] = name) % 4) + 1]

\* C28: in auto mode a frame advances the phase by at most 0.05/480 of a
\* year, the phase stays in [0, 1) and the season stays or becomes the next
\* one of spring, summer, autumn, winter; in a manual mode the season is the
\* selected one, or summer when the selection is no known season; season
\* colours are applied again only when the season name changes or the update
\* is forced.
C28_Seasons ==
  /\ [](/\ seasonState.phase >= 0 /\ seasonState.phase < secondsPerYear
        /\ sim.seasonMode # "auto" =>
             seasonState.name = (IF sim.seasonMode \in {"spring", "summer", "autumn", "winter"}
                                 THEN sim.seasonMode ELSE "summer"))
  /\ [][/\ (sim.seasonMode = "auto" /\ sim'.seasonMode = "auto") =>
             /\ (seasonState'.phase - seasonState.phase + secondsPerYear) % secondsPerYear
                  <= FrameCap
             /\ seasonState'.name \in {seasonState.name, seasonAfter(seasonState.name)}
        /\ seasonState'.colorsApplied # seasonState.colorsApplied =>
             \/ seasonState'.forced
             \/ seasonState'.name # seasonState.name]_vars

\* C28 witness: in auto mode an unforced update at the end of the year has
\* turned winter into spring and applied the colours of spring
C28_Witness ==
  /\ sim.seasonMode = "auto" /\ ~seasonState.forced
  /\ seasonState.name = "spring" /\ seasonState.phase < FrameCap
  /\ seasonState.colorsApplied = 2 /\ frames > MaxFrames - WeatherFrames


\* the frame counters are reset
FrameCountersReset ==
  frameCapAccum = 0 /\ fps.fpsFrames = 0 /\ fps.fpsAccum = 0 /\ fps.fpsUiTimer = 0

\* C29: a tick whose raw delta is non-finite, <= 0 or > 0.25 s performs no
\* simulation update and resets the frame accumulators; every other tick that
\* updates passes a step dt with 0 < dt <= 0.05 s; the frame-cap accumulator
\* stays in [0, 0.25 s].
C29_FrameLimiter ==
  /\ [](/\ frameCapAccum >= 0 /\ frameCapAccum * 4 <= Second
        /\ fps.updated => fps.dt > 0 /\ fps.dt * 20 <= Second)
  /\ [][\A deltaRaw \in Deltas :
          (/\ frameTick(deltaRaw)
           /\ \/ ~deltaRaw.finite
              \/ deltaRaw.v <= 0
              \/ deltaRaw.v * 4 > Second) => (~fps'.updated /\ FrameCountersReset')]_vars

\* C29 witness: short frames have added up to an update with the step
\* FRAME_DT, leaving a remainder in the accumulator
C29_Witness ==
  /\ fps.updated /\ fps.dt = FRAME_DT
  /\ frameCapAccum > 0 /\ fps.fpsFrames >= 2


\* C30: once start-up construction has finished, per-frame updates draw
\* random numbers only from randSim; the world-layout stream randWorld is
\* never advanced at runtime.
C30_LayoutStreamAtRest ==
  [][appPc = "running" => randWorld' = randWorld]_vars


====
